---------------------------- MODULE Spec2Model ----------------------------
(***************************************************************************)
(* A model of the train-delay prediction demo: the mock prediction service *)
(* (predictTrainDelay, predictTrainDelayByRoute and their helpers) and the *)
(* bus-stop service (getNearbyBusStops), the route map (generateMapData),   *)
(* the directions service, and the components that call them: App,         *)
(* NearbyBusStops, DirectionsView and NotificationPanel.                   *)
(*                                                                         *)
(* JavaScript strings that the code inspects character by character        *)
(* (match, trim, toLowerCase, includes, split, template literals) are      *)
(* sequences of one-character strings; strings the code only copies        *)
(* (cause, waitTime, type, riskLevel, error messages) are TLA+ strings.    *)
(***************************************************************************)
EXTENDS Integers, Sequences, FiniteSets, TLC

VARIABLES
    tpc,        \* predictTrainDelay: "idle" | "waiting" (in the 2500 ms timeout) | "settled"
    targs,      \* its argument list: <<input>> or <<input, destination>>
    tlocals,    \* its locals when it settled: trainNumber, the clock it read, the branch taken
    tresult,    \* the settled promise: [status |-> "fulfilled", value |-> ...] or "rejected"
    rpc,        \* predictTrainDelayByRoute: "idle" | "waiting" | "settled"
    rargs,      \* its argument list <<origin, destination>>
    rlocals,    \* its locals when it settled: matchingTrains, the clock it read
    rresult,    \* the settled promise
    bpc,        \* getNearbyBusStops: "idle" | "waiting" (in the 800 ms timeout) | "settled"
    bargs,      \* its argument list <<lat, lon>> or <<lat, lon, maxResults>>
    bresult,    \* the settled promise
    mpc,        \* generateMapData: "idle" | "done" (it has returned)
    margs,      \* its argument list <<trainNumber, currentLocation, delayMinutes>>
    mlocals,    \* its locals at the return: routeStations, matchedIndex, currentStationIndex
    mresult,    \* the MapData it returned
    dpc,        \* getDirectionsToBusStop: "idle" | "waiting" (in the 1000 ms timeout) | "settled"
    dargs,      \* its argument list <<fromLat, fromLon, toLat, toLon, busStopName, distance>>
    dresult,    \* the settled promise
    fpc,          \* NearbyBusStops: "idle" | "locating" (awaits requestUserLocation)
                  \*   | "fallback" (awaits getUserLocation) | "fetching" (awaits getNearbyBusStops)
    busStops,     \* useState<BusStop[]>([])
    loading,      \* useState(false)
    error,        \* useState<string | null>(null): null or [message |-> text]
    userLocation, \* useState(null): null or [latitude |-> ..., longitude |-> ...] in micro-degrees
    hasRequested, \* useState(false)
    toasts,       \* the toasts shown so far, oldest first: [kind |-> ..., message |-> ...]
    geoPromise,   \* the promise of requestUserLocation of the request in progress, as it settled
    currentScreen,         \* App: "welcome" | "processing" | "results" | "busStops"
    appTrainNumber,        \* App: trainNumber, the text of the train number field
    appOriginStation,      \* App: originStation
    appDestinationStation, \* App: destinationStation
    appPrediction,         \* App: prediction, null or the DelayPrediction
    appSearchType,         \* WelcomeScreen: searchType, "train" | "route"
    appCall,               \* the service call handleSubmit awaits: null or [fn |-> ..., args |-> ...]
    calls,   \* the service calls in progress, oldest first: [fn, args, pc, now, result]
    tables,   \* the module-level tables of the two services: trainScenarios, routeMapping, baseTravelTimes, busStopsDatabase
    selectedBusStop,   \* NearbyBusStops: useState<BusStop | null>(null)
    directions,   \* NearbyBusStops: useState<RouteDirections | null>(null)
    loadingDirections,   \* NearbyBusStops: useState(false)
    dirRequests,   \* the calls of getDirectionsToBusStop that handleGetDirections awaits, oldest first: [busStop, args]
    navSteps,   \* DirectionsView: directions.steps of the mounted view, <<>> while no view is mounted
    isNavigating,   \* DirectionsView: useState(false)
    currentStepIndex,   \* DirectionsView: useState(0), an index from 0
    progress,   \* DirectionsView: useState(0), counted in increments of 100 / 60
    navToast,   \* the toast DirectionsView showed last: null or [kind, message]
    panelProps,   \* NotificationPanel: its props [trainNumber, delayMinutes] while mounted, else null
    isEnabled,   \* NotificationPanel: useState(false)
    isOpen,   \* NotificationPanel: useState(false), the settings dialog
    settings,   \* NotificationPanel: useState({delayAlerts, arrivalReminders, platformChanges, minutesBefore})
    alertTimers   \* the 2000 ms timeouts of handleEnableNotifications not yet fired, oldest first: the props each closes over

trainVars == <<tpc, targs, tlocals, tresult>>
routeVars == <<rpc, rargs, rlocals, rresult>>
busVars   == <<bpc, bargs, bresult>>
mapVars   == <<mpc, margs, mlocals, mresult>>
dirVars   == <<dpc, dargs, dresult>>
finderVars == <<fpc, busStops, loading, error, userLocation, hasRequested, geoPromise>>
appVars   == <<currentScreen, appTrainNumber, appOriginStation, appDestinationStation,
               appPrediction, appSearchType, appCall>>
concVars == <<calls, tables>>
modalVars == <<selectedBusStop, directions, loadingDirections, dirRequests>>
navVars == <<navSteps, isNavigating, currentStepIndex, progress, navToast>>
panelVars == <<panelProps, isEnabled, isOpen, settings, alertTimers>>
vars      == <<trainVars, routeVars, busVars, mapVars, dirVars, finderVars, appVars, concVars, modalVars, navVars, panelVars, toasts>>

\* What a call of one function leaves alone: the state of the others.
exceptTrain == <<routeVars, busVars, mapVars, dirVars, finderVars, appVars, concVars, modalVars, navVars, panelVars, toasts>>
exceptRoute == <<trainVars, busVars, mapVars, dirVars, finderVars, appVars, concVars, modalVars, navVars, panelVars, toasts>>
exceptBus   == <<trainVars, routeVars, mapVars, dirVars, finderVars, appVars, concVars, modalVars, navVars, panelVars, toasts>>
exceptMap   == <<trainVars, routeVars, busVars, dirVars, finderVars, appVars, concVars, modalVars, navVars, panelVars, toasts>>
exceptDir   == <<trainVars, routeVars, busVars, mapVars, finderVars, appVars, concVars, modalVars, navVars, panelVars, toasts>>
exceptFinder == <<trainVars, routeVars, busVars, mapVars, dirVars, appVars, concVars, modalVars, navVars, panelVars>>
exceptApp    == <<trainVars, routeVars, busVars, mapVars, dirVars, finderVars, concVars, modalVars, navVars, panelVars>>
exceptConc == <<trainVars, routeVars, busVars, mapVars, dirVars, finderVars, appVars, modalVars, navVars, panelVars, toasts>>
exceptModal == <<trainVars, routeVars, busVars, mapVars, dirVars, finderVars, appVars, concVars, navVars, panelVars>>
exceptNav == <<trainVars, routeVars, busVars, mapVars, dirVars, finderVars, appVars, concVars, modalVars, panelVars, toasts>>
exceptPanel == <<trainVars, routeVars, busVars, mapVars, dirVars, finderVars, appVars, concVars, modalVars, navVars>>

-----------------------------------------------------------------------------
(* JavaScript string primitives over sequences of characters.              *)

Digits == <<"0","1","2","3","4","5","6","7","8","9">>

IsDigit(c) == \E i \in 1..Len(Digits) : Digits[i] = c

DigitVal(c) == (CHOOSE i \in 1..Len(Digits) : Digits[i] = c) - 1

DigitChar(n) == Digits[n + 1]

UpperCase == <<"A","B","C","D","E","F","G","H","I","J","K","L","M",
               "N","O","P","Q","R","S","T","U","V","W","X","Y","Z">>

LowerCase == <<"a","b","c","d","e","f","g","h","i","j","k","l","m",
               "n","o","p","q","r","s","t","u","v","w","x","y","z">>

\* The white space String.prototype.trim removes (the characters used here).
IsWhiteSpace(c) == c \in {" ", "\t", "\n"}

LowerChar(c) ==
    IF \E i \in 1..Len(UpperCase) : UpperCase[i] = c
    THEN LowerCase[CHOOSE i \in 1..Len(UpperCase) : UpperCase[i] = c]
    ELSE c

\* String.prototype.toLowerCase
toLowerCase(s) == [i \in 1..Len(s) |-> LowerChar(s[i])]

RECURSIVE trimStart(_)
trimStart(s) ==
    IF s # <<>> /\ IsWhiteSpace(Head(s)) THEN trimStart(Tail(s)) ELSE s

RECURSIVE trimEnd(_)
trimEnd(s) ==
    IF s # <<>> /\ IsWhiteSpace(s[Len(s)])
    THEN trimEnd(SubSeq(s, 1, Len(s) - 1))
    ELSE s

\* String.prototype.trim
trim(s) == trimEnd(trimStart(s))

\* String.prototype.includes: t occurs in s at some offset
includes(s, t) ==
    \E i \in 0..(Len(s) - Len(t)) : SubSeq(s, i + 1, i + Len(t)) = t

\* String.prototype.split with a one-character separator
RECURSIVE splitFrom(_, _, _)
splitFrom(s, sep, piece) ==
    IF s = <<>> THEN <<piece>>
    ELSE IF Head(s) = sep THEN <<piece>> \o splitFrom(Tail(s), sep, <<>>)
    ELSE splitFrom(Tail(s), sep, Append(piece, Head(s)))

split(s, sep) == splitFrom(s, sep, <<>>)

\* The end of the greedy match of \d+ that starts at position i of s.
RECURSIVE digitRunEnd(_, _)
digitRunEnd(s, i) ==
    IF i < Len(s) /\ IsDigit(s[i + 1]) THEN digitRunEnd(s, i + 1) ELSE i

\* input.match(/\d+/): the regular expression is tried at each start position
\* from the left; the result is the matched text, or <<>> for null ("" in the
\* caller's words).
RECURSIVE matchDigitsFrom(_, _)
matchDigitsFrom(s, i) ==
    IF i > Len(s) THEN <<>>
    ELSE IF IsDigit(s[i]) THEN SubSeq(s, i, digitRunEnd(s, i))
    ELSE matchDigitsFrom(s, i + 1)

\* parseInt of a string that starts with decimal digits: the value of the
\* leading digits, in base 10 (leading zeros do not make it octal).
RECURSIVE parseIntAcc(_, _)
parseIntAcc(s, acc) ==
    IF s # <<>> /\ IsDigit(Head(s))
    THEN parseIntAcc(Tail(s), acc * 10 + DigitVal(Head(s)))
    ELSE acc

parseInt(s) == parseIntAcc(s, 0)

\* Number to string, as a template literal prints a non-negative integer.
RECURSIVE numberToString(_)
numberToString(n) ==
    IF n < 10 THEN <<DigitChar(n)>>
    ELSE Append(numberToString(n \div 10), DigitChar(n % 10))

\* The names every object literal inherits from Object.prototype: obj[key] is
\* defined (a function or an object, never a number) for each of them.
ObjectPrototypeKeys == {
    <<"c","o","n","s","t","r","u","c","t","o","r">>,
    <<"_","_","p","r","o","t","o","_","_">>,
    <<"h","a","s","O","w","n","P","r","o","p","e","r","t","y">>,
    <<"i","s","P","r","o","t","o","t","y","p","e","O","f">>,
    <<"p","r","o","p","e","r","t","y","I","s","E","n","u","m","e","r","a","b","l","e">>,
    <<"t","o","L","o","c","a","l","e","S","t","r","i","n","g">>,
    <<"t","o","S","t","r","i","n","g">>,
    <<"v","a","l","u","e","O","f">>,
    <<"_","_","d","e","f","i","n","e","G","e","t","t","e","r","_","_">>,
    <<"_","_","d","e","f","i","n","e","S","e","t","t","e","r","_","_">>,
    <<"_","_","l","o","o","k","u","p","G","e","t","t","e","r","_","_">>,
    <<"_","_","l","o","o","k","u","p","S","e","t","t","e","r","_","_">>}

-----------------------------------------------------------------------------
(* The scenario table.                                                     *)

scenario205 == [
    trainNumber     |-> <<"T","r","a","i","n"," ","2","0","5">>,
    eta             |-> <<"0","9",":","4","2"," ","A","M">>,
    delayMinutes    |-> 12,
    riskLevel       |-> "medium",
    cause           |-> "Congestion at Junction Station",
    currentLocation |-> <<"A","p","p","r","o","a","c","h","i","n","g"," ","C","e","n","t","r","a","l"," ","J","u","n","c","t","i","o","n">>,
    alternatives    |-> <<
        [type |-> "bus", name |-> <<"B","u","s"," ","1","0">>, waitTime |-> "3 mins"],
        [type |-> "train", name |-> <<"E","x","p","r","e","s","s"," ","T","r","a","i","n"," ","2","1","0">>, waitTime |-> "8 mins"]>>,
    hasGPSData      |-> TRUE,
    hasWeatherData  |-> TRUE]

scenario450 == [
    trainNumber     |-> <<"T","r","a","i","n"," ","4","5","0">>,
    eta             |-> <<"1","0",":","1","5"," ","A","M">>,
    delayMinutes    |-> 0,
    riskLevel       |-> "low",
    cause           |-> "No delays detected",
    currentLocation |-> <<"P","l","a","t","f","o","r","m"," ","5",","," ","M","a","i","n"," ","S","t","a","t","i","o","n">>,
    alternatives    |-> <<>>,
    hasGPSData      |-> TRUE,
    hasWeatherData  |-> TRUE]

scenario132 == [
    trainNumber     |-> <<"T","r","a","i","n"," ","1","3","2">>,
    eta             |-> <<"1","1",":","2","5"," ","A","M">>,
    delayMinutes    |-> 25,
    riskLevel       |-> "high",
    cause           |-> "Severe weather conditions (Heavy rain)",
    currentLocation |-> <<"D","e","l","a","y","e","d"," ","a","t"," ","N","o","r","t","h"," ","T","e","r","m","i","n","a","l">>,
    alternatives    |-> <<
        [type |-> "bus", name |-> <<"B","u","s"," ","1","0">>, waitTime |-> "3 mins"],
        [type |-> "bus", name |-> <<"B","u","s"," ","2","2">>, waitTime |-> "5 mins"]>>,
    hasGPSData      |-> TRUE,
    hasWeatherData  |-> TRUE]

scenario301 == [
    trainNumber     |-> <<"T","r","a","i","n"," ","3","0","1">>,
    eta             |-> <<"0","2",":","2","0"," ","P","M">>,
    delayMinutes    |-> 8,
    riskLevel       |-> "low",
    cause           |-> "Minor signal delay",
    currentLocation |-> <<"W","e","s","t"," ","S","t","a","t","i","o","n">>,
    alternatives    |-> <<
        [type |-> "train", name |-> <<"T","r","a","i","n"," ","3","0","5">>, waitTime |-> "10 mins"]>>,
    hasGPSData      |-> TRUE,
    hasWeatherData  |-> TRUE]

\* A variant of the entry of train 777 whose risk level is out of step with
\* its delay.
scenario777High == [
    trainNumber     |-> <<"T","r","a","i","n"," ","7","7","7">>,
    eta             |-> <<"0","3",":","4","5"," ","P","M">>,
    delayMinutes    |-> 18,
    riskLevel       |-> "high",
    cause           |-> "Technical maintenance required",
    currentLocation |-> <<"S","e","r","v","i","c","e"," ","B","a","y"," ","2">>,
    alternatives    |-> <<>>,
    hasGPSData      |-> FALSE,
    hasWeatherData  |-> TRUE,
    errorMessage    |-> "This train is currently undergoing maintenance checks."]

scenario777 == [
    trainNumber     |-> <<"T","r","a","i","n"," ","7","7","7">>,
    eta             |-> <<"0","3",":","4","5"," ","P","M">>,
    delayMinutes    |-> 18,
    riskLevel       |-> "medium",
    cause           |-> "Technical maintenance required",
    currentLocation |-> <<"S","e","r","v","i","c","e"," ","B","a","y"," ","2">>,
    alternatives    |-> <<>>,
    hasGPSData      |-> FALSE,
    hasWeatherData  |-> TRUE,
    errorMessage    |-> "This train is currently undergoing maintenance checks."]

scenario999 == [
    trainNumber     |-> <<"T","r","a","i","n"," ","9","9","9">>,
    eta             |-> <<"0","5",":","3","0"," ","P","M">>,
    delayMinutes    |-> 5,
    riskLevel       |-> "low",
    cause           |-> "Normal operational variance",
    currentLocation |-> <<"R","o","u","t","e"," ","u","n","a","v","a","i","l","a","b","l","e">>,
    alternatives    |-> <<
        [type |-> "train", name |-> <<"T","r","a","i","n"," ","1","0","0","1">>, waitTime |-> "12 mins"]>>,
    hasGPSData      |-> FALSE,
    hasWeatherData  |-> FALSE]

\* trainScenarios: the own properties of the table, in insertion order.
trainScenarioKeys == <<<<"2","0","5">>, <<"4","5","0">>, <<"1","3","2">>, <<"3","0","1">>, <<"7","7","7">>, <<"9","9","9">>>>

trainScenarioValues == <<scenario205, scenario450, scenario132, scenario301, scenario777, scenario999>>

(* Property access on an object literal: obj[key].  An own property wins;   *)
(* otherwise the name is looked up on Object.prototype; otherwise the      *)
(* value is undefined.                                                     *)
ownIndex(keys, key) ==
    IF \E i \in 1..Len(keys) : keys[i] = key
    THEN CHOOSE i \in 1..Len(keys) : keys[i] = key
    ELSE 0

getProperty(keys, values, key) ==
    IF ownIndex(keys, key) # 0
    THEN [kind |-> "own", value |-> values[ownIndex(keys, key)]]
    ELSE IF key \in ObjectPrototypeKeys
    THEN [kind |-> "inherited"]
    ELSE [kind |-> "undefined"]

\* if (trainScenarios[trainNumber]): every own value is an object, hence truthy,
\* and any other name that could be found is a key of Object.prototype.
hasScenario(trainNumber) ==
    getProperty(trainScenarioKeys, trainScenarioValues, trainNumber).kind # "undefined"

\* trainScenarios[trainNumber] for an own key
scenarioOf(trainNumber) ==
    trainScenarioValues[ownIndex(trainScenarioKeys, trainNumber)]

\* A variant that keeps every digit of the input ("remove any non-numeric
\* characters").
extractAllDigits(input) == SelectSeq(input, IsDigit)

\* extractTrainNumber: match ? match[0] : ""
extractTrainNumber(input) == matchDigitsFrom(input, 1)

-----------------------------------------------------------------------------
(* Dates.  A clock reading is the local time of day in minutes (0..1439);   *)
(* setMinutes carries into the hours and wraps at midnight.                *)

MinutesPerDay == 24 * 60

\* toLocaleTimeString("en-US", {hour: "2-digit", minute: "2-digit"})
toLocaleTimeString(t) ==
    LET h24 == t \div 60
        mm  == t % 60
        h12 == IF h24 % 12 = 0 THEN 12 ELSE h24 % 12
    IN  <<DigitChar(h12 \div 10), DigitChar(h12 % 10), ":",
          DigitChar(mm \div 10), DigitChar(mm % 10), " ",
          IF h24 < 12 THEN "A" ELSE "P", "M">>

\* What toLocaleTimeString returns for a Date whose time value is NaN.
InvalidDate == <<"I","n","v","a","l","i","d"," ","D","a","t","e">>

\* now.setMinutes(now.getMinutes() + minutes), then the time of day
addMinutes(now, minutes) == (now + minutes) % MinutesPerDay

-----------------------------------------------------------------------------
(* generateRandomPrediction.  rnd holds what the calls of Math.random()     *)
(* lead to: an index into delays, an index into causes, and the two        *)
(* comparisons.  The function is the set of predictions it may return.     *)

delays == <<0, 5, 8, 12, 15, 20>>

causes == <<"Normal operational variance", "Minor congestion", "Signal delay",
            "Platform availability", "Crew changeover">>

RandomDraws ==
    [delay : 1..Len(delays), cause : 1..Len(causes), gps : BOOLEAN, weather : BOOLEAN]

\* A variant with the two assignments in the other order: "medium" overwrites
\* "high".
riskLevelSwapped(delayMinutes) ==
    IF delayMinutes > 10 THEN "medium"
    ELSE IF delayMinutes > 18 THEN "high"
    ELSE "low"

\* let riskLevel = "low"; if (> 10) "medium"; if (> 18) "high"
riskLevelOf(delayMinutes) ==
    IF delayMinutes > 18 THEN "high"
    ELSE IF delayMinutes > 10 THEN "medium"
    ELSE "low"

\* A variant that appends "5" to the text of the number instead of adding 5.
syntheticAlternativesConcat(trainNumber, delayMinutes) ==
    IF delayMinutes > 10
    THEN <<[type |-> "train",
            name |-> <<"T","r","a","i","n"," ">> \o trainNumber \o <<"5">>,
            waitTime |-> "15 mins"]>>
    ELSE <<>>

syntheticAlternatives(trainNumber, delayMinutes) ==
    IF delayMinutes > 10
    THEN <<[type |-> "train",
            name |-> <<"T","r","a","i","n"," ">> \o numberToString(parseInt(trainNumber) + 5),
            waitTime |-> "15 mins"]>>
    ELSE <<>>

randomPrediction(trainNumber, now, rnd) ==
    LET delayMinutes == delays[rnd.delay]
    IN  [trainNumber     |-> <<"T","r","a","i","n"," ">> \o trainNumber,
         eta             |-> toLocaleTimeString(addMinutes(now, 20 + delayMinutes)),
         delayMinutes    |-> delayMinutes,
         riskLevel       |-> riskLevelOf(delayMinutes),
         cause           |-> IF delayMinutes = 0 THEN "On schedule" ELSE causes[rnd.cause],
         currentLocation |-> <<"E","n"," ","r","o","u","t","e">>,
         alternatives    |-> syntheticAlternatives(trainNumber, delayMinutes),
         hasGPSData      |-> rnd.gps,
         hasWeatherData  |-> rnd.weather]

generateRandomPrediction(trainNumber, now) ==
    {randomPrediction(trainNumber, now, rnd) : rnd \in RandomDraws}

-----------------------------------------------------------------------------
(* calculateArrivalTime.                                                   *)

baseTravelTimeKeys == <<
    <<"d","u","r","b","a","n"," ","s","t","a","t","i","o","n">>,
    <<"u","m","h","l","a","n","g","a">>,
    <<"p","h","o","e","n","i","x">>,
    <<"c","h","a","t","s","w","o","r","t","h">>,
    <<"p","i","n","e","t","o","w","n">>,
    <<"w","e","s","t","v","i","l","l","e">>,
    <<"q","u","e","e","n","s","b","u","r","g","h">>,
    <<"k","w","a","m","a","s","h","u">>,
    <<"u","m","l","a","z","i">>,
    <<"i","s","i","p","i","n","g","o">>,
    <<"c","e","n","t","r","a","l"," ","s","t","a","t","i","o","n">>,
    <<"n","o","r","t","h"," ","s","t","a","t","i","o","n">>,
    <<"s","o","u","t","h"," ","s","t","a","t","i","o","n">>,
    <<"e","a","s","t"," ","s","t","a","t","i","o","n">>,
    <<"w","e","s","t"," ","s","t","a","t","i","o","n">>,
    <<"a","i","r","p","o","r","t">>,
    <<"c","i","t","y"," ","c","e","n","t","e","r">>,
    <<"s","u","b","u","r","b">>>>

baseTravelTimeValues ==
    <<15, 25, 35, 30, 20, 18, 22, 40, 35, 28, 15, 25, 30, 20, 22, 35, 15, 25>>

\* baseTravelTimes[destinationKey] || 20: an own value is a non-zero number;
\* an inherited one is truthy and no number; undefined gives 20.
baseTravelTimeOf(destinationKey) ==
    LET p == getProperty(baseTravelTimeKeys, baseTravelTimeValues, destinationKey)
    IN  IF p.kind = "undefined" \/ (p.kind = "own" /\ p.value = 0)
        THEN [kind |-> "own", value |-> 20]
        ELSE p

\* With a number, the ETA is the clock plus both terms.  With a value that is
\* no number, "+" concatenates strings, setMinutes gets NaN and the date is
\* invalid.
calculateArrivalTime(delayMinutes, destination, now) ==
    LET baseTravelTime == baseTravelTimeOf(toLowerCase(destination))
    IN  IF baseTravelTime.kind = "own"
        THEN toLocaleTimeString(addMinutes(now, baseTravelTime.value + delayMinutes))
        ELSE InvalidDate

-----------------------------------------------------------------------------
(* predictTrainDelay.                                                      *)

Fulfilled(v) == [status |-> "fulfilled", value |-> v]

Rejected(message) == [status |-> "rejected", reason |-> message]

Pending == [status |-> "pending"]

FormatError == "Invalid train number format. Please enter a valid train number."

RangeError == "Invalid train number. Please enter a train number between 100 and 999."

StationsError == "Please enter both origin and destination stations."

\* A variant with both comparisons off by one.
outOfRangeOffByOne(trainNum) == trainNum <= 100 \/ trainNum >= 999

\* if (trainNum < 100 || trainNum > 999) throw
outOfRange(trainNum) == trainNum < 100 \/ trainNum > 999

\* if (destination): the argument was passed and is not the empty string
hasDestination(args) == Len(args) >= 2 /\ args[2] # <<>>

\* prediction.eta = calculateArrivalTime(...) when a destination is given
withEta(prediction, args, now) ==
    IF hasDestination(args)
    THEN [prediction EXCEPT
            !.eta = calculateArrivalTime(prediction.delayMinutes, args[2], now)]
    ELSE prediction

\* The body that runs when the timeout fires: the promises it may settle with.
predictTrainDelay(args, now) ==
    LET trainNumber == extractTrainNumber(args[1])
    IN  IF trainNumber = <<>> THEN {Rejected(FormatError)}
        ELSE IF outOfRange(parseInt(trainNumber)) THEN {Rejected(RangeError)}
        ELSE IF hasScenario(trainNumber)
        THEN {Fulfilled(withEta(scenarioOf(trainNumber), args, now))}
        ELSE {Fulfilled(withEta(prediction, args, now)) :
                prediction \in generateRandomPrediction(trainNumber, now)}

-----------------------------------------------------------------------------
(* The route table and findTrainsByRoute.                                  *)

routeMappingKeys == <<
    <<"d","u","r","b","a","n"," ","s","t","a","t","i","o","n","-","u","m","h","l","a","n","g","a">>,
    <<"d","u","r","b","a","n"," ","s","t","a","t","i","o","n","-","p","h","o","e","n","i","x">>,
    <<"d","u","r","b","a","n"," ","s","t","a","t","i","o","n","-","c","h","a","t","s","w","o","r","t","h">>,
    <<"d","u","r","b","a","n"," ","s","t","a","t","i","o","n","-","p","i","n","e","t","o","w","n">>,
    <<"u","m","h","l","a","n","g","a","-","d","u","r","b","a","n"," ","s","t","a","t","i","o","n">>,
    <<"p","h","o","e","n","i","x","-","d","u","r","b","a","n"," ","s","t","a","t","i","o","n">>,
    <<"c","h","a","t","s","w","o","r","t","h","-","d","u","r","b","a","n"," ","s","t","a","t","i","o","n">>,
    <<"p","i","n","e","t","o","w","n","-","d","u","r","b","a","n"," ","s","t","a","t","i","o","n">>,
    <<"w","e","s","t","v","i","l","l","e","-","d","u","r","b","a","n"," ","s","t","a","t","i","o","n">>,
    <<"q","u","e","e","n","s","b","u","r","g","h","-","d","u","r","b","a","n"," ","s","t","a","t","i","o","n">>,
    <<"k","w","a","m","a","s","h","u","-","d","u","r","b","a","n"," ","s","t","a","t","i","o","n">>,
    <<"u","m","l","a","z","i","-","d","u","r","b","a","n"," ","s","t","a","t","i","o","n">>,
    <<"i","s","i","p","i","n","g","o","-","d","u","r","b","a","n"," ","s","t","a","t","i","o","n">>,
    <<"c","e","n","t","r","a","l"," ","s","t","a","t","i","o","n","-","n","o","r","t","h"," ","s","t","a","t","i","o","n">>,
    <<"c","e","n","t","r","a","l"," ","s","t","a","t","i","o","n","-","s","o","u","t","h"," ","s","t","a","t","i","o","n">>,
    <<"c","e","n","t","r","a","l"," ","s","t","a","t","i","o","n","-","e","a","s","t"," ","s","t","a","t","i","o","n">>,
    <<"c","e","n","t","r","a","l"," ","s","t","a","t","i","o","n","-","w","e","s","t"," ","s","t","a","t","i","o","n">>,
    <<"c","e","n","t","r","a","l"," ","s","t","a","t","i","o","n","-","a","i","r","p","o","r","t">>>>

routeMappingValues == <<
    <<<<"2","0","5">>>>, <<<<"4","5","0">>>>, <<<<"1","3","2">>>>, <<<<"3","0","1">>>>, <<<<"2","0","5">>>>, <<<<"4","5","0">>>>,
    <<<<"1","3","2">>>>, <<<<"3","0","1">>>>, <<<<"2","0","5">>>>, <<<<"4","5","0">>>>, <<<<"1","3","2">>>>, <<<<"3","0","1">>>>,
    <<<<"2","0","5">>>>, <<<<"2","0","5">>>>, <<<<"4","5","0">>>>, <<<<"1","3","2">>>>, <<<<"3","0","1">>>>, <<<<"2","0","5">>>>>>

\* A variant whose generic train has no scenario.
DefaultTrainsUnknown == <<<<"3","0","0">>>>

DefaultTrains == <<<<"3","0","1">>>>

\* A variant that trims and keeps the case.
normalizeKeepCase(name) == trim(name)

\* name.toLowerCase().trim()
normalizeStationName(name) == trim(toLowerCase(name))

\* The filter's test: the key's two parts and the query's two names contain
\* each other, one way or the other.
partialMatch(key, normalizedOrigin, normalizedDestination) ==
    LET parts            == split(key, "-")
        routeOrigin      == parts[1]
        routeDestination == parts[2]
    IN  /\ (includes(routeOrigin, normalizedOrigin)
            \/ includes(normalizedOrigin, routeOrigin))
        /\ (includes(routeDestination, normalizedDestination)
            \/ includes(normalizedDestination, routeDestination))

\* A variant that takes the last matching key.
lastMatch(matchingRoutes) ==
    routeMappingValues[ownIndex(routeMappingKeys, matchingRoutes[Len(matchingRoutes)])]

\* routeMappings[matchingRoutes[0]]
firstMatch(matchingRoutes) ==
    routeMappingValues[ownIndex(routeMappingKeys, matchingRoutes[1])]

findTrainsByRoute(origin, destination) ==
    LET normalizedOrigin      == normalizeStationName(origin)
        normalizedDestination == normalizeStationName(destination)
        routeKey              == normalizedOrigin \o <<"-">> \o normalizedDestination
        direct                == getProperty(routeMappingKeys, routeMappingValues, routeKey)
        Test(key)             == partialMatch(key, normalizedOrigin, normalizedDestination)
        matchingRoutes        == SelectSeq(routeMappingKeys, Test)
    IN  IF direct.kind = "own" THEN direct.value
        ELSE IF Len(matchingRoutes) > 0 THEN firstMatch(matchingRoutes)
        ELSE DefaultTrains

-----------------------------------------------------------------------------
(* predictTrainDelayByRoute.                                               *)

\* A variant that tests the strings as entered, untrimmed.
missingStationUntrimmed(origin, destination) ==
    origin = <<>> \/ destination = <<>>

\* if (!origin.trim() || !destination.trim()) throw
missingStation(origin, destination) ==
    trim(origin) = <<>> \/ trim(destination) = <<>>

\* `En route from ${origin} to ${destination}`
enRoute(origin, destination) ==
    <<"E","n"," ","r","o","u","t","e"," ","f","r","o","m"," ">> \o origin
        \o <<" ","t","o"," ">> \o destination

predictTrainDelayByRoute(args, now) ==
    LET origin         == args[1]
        destination    == args[2]
        matchingTrains == findTrainsByRoute(origin, destination)
        trainNumber    == matchingTrains[1]
    IN  IF missingStation(origin, destination) THEN {Rejected(StationsError)}
        ELSE IF hasScenario(trainNumber)
        THEN {Fulfilled([scenarioOf(trainNumber) EXCEPT
                !.currentLocation = enRoute(origin, destination),
                !.eta = calculateArrivalTime(scenarioOf(trainNumber).delayMinutes,
                                             destination, now)])}
        ELSE {Fulfilled([prediction EXCEPT
                !.eta = calculateArrivalTime(prediction.delayMinutes, destination, now),
                !.currentLocation = enRoute(origin, destination)]) :
                prediction \in generateRandomPrediction(trainNumber, now)}

-----------------------------------------------------------------------------
(* The bus-stop service.  Coordinates are in millionths of a degree.        *)

busStopsDatabase == <<
    [id |-> "BS001", name |-> "Central Station Bus Hub", address |-> "123 Main Street",
     latitude |-> 40748900, longitude |-> -73968000,
     routes |-> <<"10", "22", "45", "67", "88">>],
    [id |-> "BS002", name |-> "Gateway Plaza Stop", address |-> "456 Commerce Ave",
     latitude |-> 40751000, longitude |-> -73972000,
     routes |-> <<"10", "33", "45">>],
    [id |-> "BS003", name |-> "North Park Transit", address |-> "789 Park Road",
     latitude |-> 40753000, longitude |-> -73975000,
     routes |-> <<"22", "67", "88", "101">>],
    [id |-> "BS004", name |-> "Harbor View Terminal", address |-> "321 Waterfront Blvd",
     latitude |-> 40747000, longitude |-> -73965000,
     routes |-> <<"45", "67", "88">>],
    [id |-> "BS005", name |-> "Downtown Express Stop", address |-> "555 Business District",
     latitude |-> 40752000, longitude |-> -73970000,
     routes |-> <<"10", "22", "33", "Express 1">>],
    [id |-> "BS006", name |-> "West End Junction", address |-> "999 West Avenue",
     latitude |-> 40746000, longitude |-> -73978000,
     routes |-> <<"22", "88", "101">>],
    [id |-> "BS007", name |-> "Airport Connector", address |-> "100 Terminal Drive",
     latitude |-> 40754000, longitude |-> -73969000,
     routes |-> <<"Airport Shuttle", "Express 1", "101">>],
    [id |-> "BS008", name |-> "University Campus Stop", address |-> "200 College Way",
     latitude |-> 40745000, longitude |-> -73973000,
     routes |-> <<"33", "45", "67">>]>>

\* The user locations of the calls: the mock location of getUserLocation and
\* seven more around the stops (one on a stop, one some kilometres away).
UserLocations == {
    <<40750000, -73970000>>, <<40744000, -73976020>>, <<40744000, -73975450>>,
    <<40748900, -73968000>>, <<40744000, -73976200>>, <<40800000, -74000000>>,
    <<40748900, -73968300>>, <<40749600, -73968000>>, <<40747378, -73975139>>}

\* R * c of the Haversine formula (R = 6371e3 m) from each user location to
\* the stops in table order, in millimetres rounded down.  The sines, cosines
\* and square roots of the formula are outside the integers, so its values
\* for the locations above are tabulated.
haversine ==
    <<40750000, -73970000>> :> <<208194, 201860, 537279, 537294, 222389, 807462, 452685, 610717>> @@
    <<40744000, -73976020>> :> <<867945, 848842, 1004436, 986472, 1023958, 277993, 1259417, 277655>> @@
    <<40744000, -73975450>> :> <<831114, 830853, 1001472, 941423, 1001047, 309201, 1237597, 234445>> @@
    <<40748900, -73968000>> :> <<0, 409953, 745342, 329397, 383672, 902015, 573316, 604546>> @@
    <<40744000, -73976200>> :> <<879800, 855004, 1005846, 1000756, 1031552, 269168, 1266607, 291613>> @@
    <<40800000, -74000000>> :> <<6288617, 5936805, 5634198, 6589212, 5904974, 6283819, 5742520, 6524682>> @@
    <<40748900, -73968300>> :> <<25271, 389448, 725514, 349162, 373266, 878459, 570151, 587217>> @@
    <<40749600, -73968000>> :> <<77836, 371171, 700441, 383991, 315597, 932674, 496456, 662602>> @@
    <<40747378, -73975139>> :> <<624746, 481794, 625247, 855152, 671965, 285598, 899781, 319982>>

\* calculateDistance, in millimetres
calculateDistance(lat1, lon1, lat2, lon2) ==
    LET stop == CHOOSE i \in 1..Len(busStopsDatabase) :
                    /\ busStopsDatabase[i].latitude = lat2
                    /\ busStopsDatabase[i].longitude = lon2
    IN  haversine[<<lat1, lon1>>][stop]

\* Math.round of a quotient a / b with b > 0: floor(a / b + 1/2)
roundDiv(a, b) == (2 * a + b) \div (2 * b)

\* calculateWalkTime: Math.round((distanceMeters / 1000) * 12) minutes
calculateWalkTime(distanceMm) ==
    LET minutes == roundDiv(12 * distanceMm, 1000000)
    IN  IF minutes < 1 THEN <<"<"," ","1"," ","m","i","n"," ","w","a","l","k">>
        ELSE IF minutes = 1 THEN <<"1"," ","m","i","n"," ","w","a","l","k">>
        ELSE numberToString(minutes) \o <<" ","m","i","n"," ","w","a","l","k">>

\* formatDistance: Math.round(meters)
formatDistance(distanceMm) == roundDiv(distanceMm, 1000)

\* A variant that sorts the farthest first (b.distance - a.distance).
RECURSIVE sortFarthestFirst(_)
sortFarthestFirst(stops) ==
    IF stops = <<>> THEN <<>>
    ELSE LET rest   == sortFarthestFirst(SubSeq(stops, 1, Len(stops) - 1))
             last   == stops[Len(stops)]
             before == SelectSeq(rest, LAMBDA s : s.distance >= last.distance)
             after  == SelectSeq(rest, LAMBDA s : s.distance < last.distance)
         IN  before \o <<last>> \o after

\* A variant that puts a stop before the stops that are equally far (an
\* unstable sort: ties come out in reverse table order).
RECURSIVE sortTiesReversed(_)
sortTiesReversed(stops) ==
    IF stops = <<>> THEN <<>>
    ELSE LET rest   == sortTiesReversed(SubSeq(stops, 1, Len(stops) - 1))
             last   == stops[Len(stops)]
             before == SelectSeq(rest, LAMBDA s : s.distance < last.distance)
             after  == SelectSeq(rest, LAMBDA s : s.distance >= last.distance)
         IN  before \o <<last>> \o after

\* Array.prototype.sort with (a, b) => a.distance - b.distance: a stable sort,
\* here by inserting each element after those that are not farther.
RECURSIVE sortByDistance(_)
sortByDistance(stops) ==
    IF stops = <<>> THEN <<>>
    ELSE LET rest   == sortByDistance(SubSeq(stops, 1, Len(stops) - 1))
             last   == stops[Len(stops)]
             before == SelectSeq(rest, LAMBDA s : s.distance <= last.distance)
             after  == SelectSeq(rest, LAMBDA s : s.distance > last.distance)
         IN  before \o <<last>> \o after

\* Array.prototype.slice(0, end): a negative end counts from the end
slice(array, end) ==
    LET stop == IF end < 0 THEN Len(array) + end ELSE end
    IN  SubSeq(array, 1, IF stop > Len(array) THEN Len(array) ELSE stop)

DefaultMaxResults == 5

getNearbyBusStops(args) ==
    LET userLat    == args[1]
        userLon    == args[2]
        maxResults == IF Len(args) >= 3 THEN args[3] ELSE DefaultMaxResults
        stopsWithDistance ==
            [i \in 1..Len(busStopsDatabase) |->
                LET stop == busStopsDatabase[i]
                IN  [id |-> stop.id, name |-> stop.name, address |-> stop.address,
                     latitude |-> stop.latitude, longitude |-> stop.longitude,
                     routes |-> stop.routes,
                     distance |-> formatDistance(
                         calculateDistance(userLat, userLon, stop.latitude, stop.longitude)),
                     estimatedWalkTime |-> calculateWalkTime(
                         calculateDistance(userLat, userLon, stop.latitude, stop.longitude))]]
    IN  slice(sortByDistance(stopsWithDistance), maxResults)

-----------------------------------------------------------------------------
(* generateMapData: the stations of a train's route and the train's place   *)
(* among them.                                                              *)

routeDefinitionKeys == <<<<"2","0","5">>, <<"4","5","0">>, <<"1","3","2">>, <<"3","0","1">>, <<"7","7","7">>, <<"9","9","9">>>>

routeDefinitionValues == <<
    <<<<"S","o","u","t","h"," ","T","e","r","m","i","n","a","l">>,
      <<"G","a","t","e","w","a","y"," ","S","t","a","t","i","o","n">>,
      <<"C","e","n","t","r","a","l"," ","J","u","n","c","t","i","o","n">>,
      <<"C","o","m","m","e","r","c","e"," ","P","l","a","z","a">>,
      <<"N","o","r","t","h"," ","P","a","r","k">>,
      <<"C","e","n","t","r","a","l"," ","S","t","a","t","i","o","n">>>>,
    <<<<"W","e","s","t"," ","E","n","d">>,
      <<"M","a","r","k","e","t"," ","S","q","u","a","r","e">>,
      <<"C","i","t","y"," ","C","e","n","t","e","r">>,
      <<"M","a","i","n"," ","S","t","a","t","i","o","n">>,
      <<"E","a","s","t"," ","T","e","r","m","i","n","a","l">>>>,
    <<<<"A","i","r","p","o","r","t"," ","T","e","r","m","i","n","a","l">>,
      <<"B","u","s","i","n","e","s","s"," ","D","i","s","t","r","i","c","t">>,
      <<"N","o","r","t","h"," ","T","e","r","m","i","n","a","l">>,
      <<"H","a","r","b","o","r"," ","V","i","e","w">>,
      <<"D","o","w","n","t","o","w","n"," ","C","e","n","t","r","a","l">>,
      <<"U","n","i","v","e","r","s","i","t","y"," ","C","a","m","p","u","s">>,
      <<"S","p","o","r","t","s"," ","C","o","m","p","l","e","x">>>>,
    <<<<"S","u","b","u","r","b","a","n"," ","S","t","a","t","i","o","n">>,
      <<"W","e","s","t"," ","S","t","a","t","i","o","n">>,
      <<"I","n","d","u","s","t","r","i","a","l"," ","P","a","r","k">>,
      <<"C","i","t","y"," ","H","a","l","l">>,
      <<"C","e","n","t","r","a","l"," ","S","t","a","t","i","o","n">>>>,
    <<<<"M","a","i","n","t","e","n","a","n","c","e"," ","D","e","p","o","t">>,
      <<"S","e","r","v","i","c","e"," ","B","a","y"," ","2">>,
      <<"T","e","c","h","n","i","c","a","l"," ","C","e","n","t","e","r">>,
      <<"M","a","i","n"," ","S","t","a","t","i","o","n">>>>,
    <<<<"O","l","d"," ","T","o","w","n">>,
      <<"H","e","r","i","t","a","g","e"," ","P","l","a","z","a">>,
      <<"M","u","s","e","u","m"," ","Q","u","a","r","t","e","r">>,
      <<"C","i","t","y"," ","C","e","n","t","e","r">>,
      <<"N","e","w"," ","D","i","s","t","r","i","c","t">>>>>>

defaultRoute == <<<<"O","r","i","g","i","n"," ","S","t","a","t","i","o","n">>,
                  <<"M","i","d","t","o","w","n"," ","S","t","o","p">>,
                  <<"C","e","n","t","r","a","l"," ","H","u","b">>,
                  <<"D","e","s","t","i","n","a","t","i","o","n"," ","S","t","a","t","i","o","n">>>>

JunctionPoint == <<"J","u","n","c","t","i","o","n"," ","P","o","i","n","t">>

TransferStation == <<"T","r","a","n","s","f","e","r"," ","S","t","a","t","i","o","n">>

EnRouteFrom == <<"e","n"," ","r","o","u","t","e"," ","f","r","o","m"," ">>

ToWord == <<" ","t","o"," ">>

\* routeDefinitions[trainNum]: trainNum is a run of digits or "", which never
\* names a property the object inherits, so the value is an own entry or
\* undefined.
hasRouteDefinition(trainNum) ==
    getProperty(routeDefinitionKeys, routeDefinitionValues, trainNum).kind = "own"

routeDefinitionOf(trainNum) ==
    routeDefinitionValues[ownIndex(routeDefinitionKeys, trainNum)]

\* The dot of a regular expression matches any character but a line terminator.
IsLineTerminator(c) == c = "\n"

NoLineTerminator(s) == \A i \in 1..Len(s) : ~IsLineTerminator(s[i])

\* The end of the greedy (.+) that starts at position i of s: the last
\* position before the next line terminator (i - 1 when there is none to take).
RECURSIVE dotRunEnd(_, _)
dotRunEnd(s, i) ==
    IF i <= Len(s) /\ ~IsLineTerminator(s[i]) THEN dotRunEnd(s, i + 1) ELSE i - 1

\* The positions q at which " to " can separate the two groups of
\* /En route from (.+) to (.+)/i when the match starts at s: the first group
\* s + 14 .. q - 1 and the second group from q + 4 on are not empty.
toPositions(location, start) ==
    LET lower == toLowerCase(location)
        first == start + Len(EnRouteFrom)
    IN  { q \in (first + 1)..(Len(location) - Len(ToWord)) :
            /\ SubSeq(lower, q, q + Len(ToWord) - 1) = ToWord
            /\ NoLineTerminator(SubSeq(location, first, q - 1))
            /\ dotRunEnd(location, q + Len(ToWord)) >= q + Len(ToWord) }

\* The start positions at which the regular expression matches.
enRouteStarts(location) ==
    LET lower == toLowerCase(location)
    IN  { s \in 1..(Len(location) - Len(EnRouteFrom) + 1) :
            /\ SubSeq(lower, s, s + Len(EnRouteFrom) - 1) = EnRouteFrom
            /\ toPositions(location, s) # {} }

Max(S) == CHOOSE x \in S : \A y \in S : y <= x

Min(S) == CHOOSE x \in S : \A y \in S : x <= y

\* currentLocation.match(/En route from (.+) to (.+)/i): <<>> for null, else
\* <<origin, destination>>.  The match is the leftmost one; the first group
\* is greedy, so it ends at the last " to " that leaves a second group.
matchEnRoute(location) ==
    LET starts == enRouteStarts(location)
    IN  IF starts = {} THEN <<>>
        ELSE LET s == Min(starts)
                 q == Max(toPositions(location, s))
             IN  <<SubSeq(location, s + Len(EnRouteFrom), q - 1),
                   SubSeq(location, q + Len(ToWord), dotRunEnd(location, q + Len(ToWord)))>>

\* The station list: the train's own route, else the four stations made of
\* the location's origin and destination, else the default route.
routeStationsOf(trainNum, location) ==
    LET routeMatch == matchEnRoute(location)
    IN  IF hasRouteDefinition(trainNum) THEN routeDefinitionOf(trainNum)
        ELSE IF routeMatch # <<>>
        THEN <<routeMatch[1], JunctionPoint, TransferStation, routeMatch[2]>>
        ELSE defaultRoute

stationMatches(station, location) ==
    LET lowerStation  == toLowerCase(station)
        lowerLocation == toLowerCase(location)
    IN  \/ includes(lowerLocation, lowerStation)
        \/ includes(lowerStation, lowerLocation)

\* A variant of findIndex that returns the last station that matches.
findLastIndex(routeStations, location) ==
    LET found == { i \in 1..Len(routeStations) : stationMatches(routeStations[i], location) }
    IN  IF found = {} THEN -1 ELSE Max(found) - 1

\* routeStations.findIndex(...): the 0-based index of the first station that
\* matches, -1 when none does.
findIndex(routeStations, location) ==
    LET found == { i \in 1..Len(routeStations) : stationMatches(routeStations[i], location) }
    IN  IF found = {} THEN -1 ELSE Min(found) - 1

\* Math.floor(length * 0.8), * 0.6, * 0.4, * 0.2 with the factor in tenths;
\* for the lengths 4..7 the floating-point product has the same floor as the
\* exact one.
floorOfTenths(length, tenths) == (length * tenths) \div 10

\* A variant with the buckets of the delay in the reverse order.
bucketIndexReversed(length, delayMinutes) ==
    IF delayMinutes = 0 THEN floorOfTenths(length, 2)
    ELSE IF delayMinutes < 10 THEN floorOfTenths(length, 4)
    ELSE IF delayMinutes < 20 THEN floorOfTenths(length, 6)
    ELSE floorOfTenths(length, 8)

bucketIndex(length, delayMinutes) ==
    IF delayMinutes = 0 THEN floorOfTenths(length, 8)
    ELSE IF delayMinutes < 10 THEN floorOfTenths(length, 6)
    ELSE IF delayMinutes < 20 THEN floorOfTenths(length, 4)
    ELSE floorOfTenths(length, 2)

\* A variant that lets the delay decide before the text.
currentStationIndexDelayFirst(matchedIndex, length, delayMinutes) ==
    IF delayMinutes = 0 \/ matchedIndex = -1
    THEN bucketIndex(length, delayMinutes)
    ELSE matchedIndex

\* let currentStationIndex = 0; then the matched index, else the bucket
currentStationIndexOf(matchedIndex, length, delayMinutes) ==
    IF matchedIndex # -1
    THEN matchedIndex
    ELSE bucketIndex(length, delayMinutes)

NaN == [kind |-> "NaN"]

Infinity == [kind |-> "Infinity"]

\* (index / (length - 1)) * 100 in floating point: a number, written as the
\* fraction num / den, or NaN for 0 / 0, or Infinity for a positive index
\* over 0.
percentOf(index, length) ==
    IF length - 1 = 0
    THEN IF index = 0 THEN NaN ELSE Infinity
    ELSE [kind |-> "number", num |-> index * 100, den |-> length - 1]

\* A variant that marks the current station as passed too.
stationsPassedThrough(routeStations, currentStationIndex) ==
    [i \in 1..Len(routeStations) |->
        [name      |-> routeStations[i],
         position  |-> percentOf(i - 1, Len(routeStations)),
         isPassed  |-> i - 1 <= currentStationIndex,
         isCurrent |-> i - 1 = currentStationIndex]]

\* routeStations.map(...): index is 0-based in the code, i - 1 here.
stationsOf(routeStations, currentStationIndex) ==
    [i \in 1..Len(routeStations) |->
        [name      |-> routeStations[i],
         position  |-> percentOf(i - 1, Len(routeStations)),
         isPassed  |-> i - 1 < currentStationIndex,
         isCurrent |-> i - 1 = currentStationIndex]]

\* The locals of generateMapData(trainNumber, currentLocation, delayMinutes)
\* when it reaches its return statement.
mapLocalsOf(args) ==
    LET routeStations == routeStationsOf(extractTrainNumber(args[1]), args[2])
        matchedIndex  == findIndex(routeStations, args[2])
    IN  [routeStations       |-> routeStations,
         matchedIndex        |-> matchedIndex,
         currentStationIndex |->
             currentStationIndexOf(matchedIndex, Len(routeStations), args[3])]

\* return { stations, progress }
mapDataOf(locals) ==
    [stations |-> stationsOf(locals.routeStations, locals.currentStationIndex),
     progress |-> percentOf(locals.currentStationIndex, Len(locals.routeStations))]

generateMapData(args) == mapDataOf(mapLocalsOf(args))

NoMapLocals == [routeStations |-> <<>>, matchedIndex |-> -1, currentStationIndex |-> 0]

NoMapData == [stations |-> <<>>, progress |-> NaN]

-----------------------------------------------------------------------------
(* directionsService: walking directions to a bus stop.                     *)

streetNames == <<"Main Street", "Park Avenue", "Commerce Boulevard", "Station Road",
                 "Transit Way", "Harbor Drive", "Market Street", "Broadway",
                 "Central Avenue", "Gateway Plaza">>

turnTypes == <<"left", "right">>

\* A template literal prints an integer with its sign (-0 prints as 0).
integerToString(n) ==
    IF n < 0 THEN <<"-">> \o numberToString(0 - n) ELSE numberToString(n)

numSteps == 5

\* Math.sin(i) * 0.0002 for i = 0..5, in tenths of a micro-degree (rounded).
variation == <<0, 1683, 1819, 282, -1514, -1918>>

\* calculateWalkingRoute: numSteps + 1 points on the line between the two
\* places, each moved by the variation.  Coordinates come in micro-degrees
\* and the points are given in tenths of a micro-degree, in which
\* (to - from) * i / 5 is the whole number (to - from) * 2 * i.
calculateWalkingRoute(fromLat, fromLon, toLat, toLon) ==
    [k \in 1..(numSteps + 1) |->
        [latitude  |-> 10 * fromLat + (toLat - fromLat) * (10 \div numSteps) * (k - 1) + variation[k],
         longitude |-> 10 * fromLon + (toLon - fromLon) * (10 \div numSteps) * (k - 1) + variation[k]]]

Minimum(a, b) == IF a < b THEN a ELSE b

headEastStep ==
    [instruction |-> "Head east on your current street",
     distance    |-> <<"5","0","m">>,
     duration    |-> <<"1"," ","m","i","n">>,
     icon        |-> "straight"]

arriveStep ==
    [instruction |-> "Arrive at bus stop",
     distance    |-> <<"0","m">>,
     duration    |-> <<"0"," ","m","i","n">>,
     icon        |-> "arrive"]

\* A variant that never makes more than three turns.
numTurnsCappedAtThree(distance) == Minimum(distance \div 300, 3)

\* Math.min(Math.floor(distance / 300), 4)
numTurnsOf(distance) == Minimum(distance \div 300, 4)

\* Math.round(stepDistance) with stepDistance = remainingDistance / (numTurns + 1),
\* which is remainingDistance itself when numTurns = 0.
roundedStepDistance(distance) ==
    roundDiv(distance - 50, numTurnsOf(distance) + 1)

\* One step of the loop, for the turn type and street the random draws pick.
turnStep(distance, turnType, street) ==
    [instruction |-> "Turn " \o turnType \o " onto " \o street,
     distance    |-> integerToString(roundedStepDistance(distance)) \o <<"m">>,
     duration    |-> integerToString(roundDiv(distance - 50, (numTurnsOf(distance) + 1) * 83))
                        \o <<" ","m","i","n">>,
     icon        |-> turnType,
     streetName  |-> street]

continueStep(distance) ==
    [instruction |-> "Continue straight to bus stop",
     distance    |-> integerToString(roundedStepDistance(distance)) \o <<"m">>,
     duration    |-> integerToString(roundDiv(roundedStepDistance(distance), 83))
                        \o <<" ","m","i","n">>,
     icon        |-> "straight"]

\* The outcomes of the two random draws of one turn.
TurnDraws == (1..Len(turnTypes)) \X (1..Len(streetNames))

\* generateDirectionSteps: every list of steps the random draws can give.
\* (The duration parameter is not used by the code.)
generateDirectionSteps(distance, duration) ==
    { <<headEastStep>>
        \o [i \in 1..numTurnsOf(distance) |->
              turnStep(distance, turnTypes[draws[i][1]], streetNames[draws[i][2]])]
        \o <<continueStep(distance), arriveStep>> :
      draws \in [1..numTurnsOf(distance) -> TurnDraws] }

\* formatDistance of the directions service: whole metres below 1000,
\* else kilometres with one decimal (for distances that are not halfway
\* between two tenths, where toFixed(1) is the nearest tenth).
formatDistanceText(meters) ==
    IF meters < 1000 THEN integerToString(meters) \o <<"m">>
    ELSE LET tenths == roundDiv(meters, 100)
         IN  numberToString(tenths \div 10) \o <<".">> \o numberToString(tenths % 10)
               \o <<"k","m">>

\* formatDuration of minutes = (distance / 1000) * 12, i.e. 12 * distance
\* thousandths of a minute.
formatDuration(distance) ==
    IF 12 * distance < 1000 THEN <<"<"," ","1"," ","m","i","n">>
    ELSE IF 12 * distance < 60000
    THEN numberToString(roundDiv(12 * distance, 1000)) \o <<" ","m","i","n">>
    ELSE numberToString((12 * distance) \div 60000) \o <<"h"," ">>
           \o numberToString(roundDiv((12 * distance) % 60000, 1000)) \o <<"m","i","n">>

\* getDirectionsToBusStop(fromLat, fromLon, toLat, toLon, busStopName, distance):
\* the promises it can settle to.
getDirectionsToBusStop(args) ==
    { Fulfilled([steps         |-> steps,
                 totalDistance |-> formatDistanceText(args[6]),
                 totalDuration |-> formatDuration(args[6]),
                 routePoints   |-> calculateWalkingRoute(args[1], args[2], args[3], args[4])]) :
      steps \in generateDirectionSteps(args[6], args[6] * 12) }

-----------------------------------------------------------------------------
(* NearbyBusStops: the bus-stop finder and the location it asks for.        *)

null == [null |-> TRUE]

\* getUserLocation: the mock location it resolves to after 500 ms
getUserLocation == [latitude |-> 40750000, longitude |-> -73970000]

NotSupportedError == "Geolocation is not supported by your browser"

PermissionDeniedError == "Location permission denied. Using default location."

PositionUnavailableError == "Location information unavailable."

TimeoutError == "Location request timed out."

UnknownError == "An unknown error occurred."

\* requestUserLocation: the promises it can settle to: a position, or the
\* rejection for a browser without geolocation or for the error code of
\* getCurrentPosition.
requestUserLocation ==
    { Fulfilled([coords |-> [latitude |-> loc[1], longitude |-> loc[2]]]) : loc \in UserLocations }
      \cup { Rejected(m) : m \in {NotSupportedError, PermissionDeniedError,
                                  PositionUnavailableError, TimeoutError, UnknownError} }

toast(kind, message) == [kind |-> kind, message |-> message]

\* A variant of the end of fetchNearbyStops without its finally block.
fetchNearbyStopsNoFinally(promise) ==
    IF promise.status = "fulfilled"
    THEN [busStops |-> promise.value,
          error    |-> error,
          toasts   |-> Append(toasts, toast("success",
                          "Found " \o ToString(Len(promise.value)) \o " nearby bus stops")),
          loading  |-> loading]
    ELSE [busStops |-> busStops,
          error    |-> [message |-> "Failed to fetch nearby bus stops"],
          toasts   |-> Append(toasts, toast("error", "Failed to fetch nearby bus stops")),
          loading  |-> loading]

\* fetchNearbyStops from the point its await resumes with the promise of
\* getNearbyBusStops: the state it leaves.
fetchNearbyStopsResumed(promise) ==
    IF promise.status = "fulfilled"
    THEN [busStops |-> promise.value,
          error    |-> error,
          toasts   |-> Append(toasts, toast("success",
                          "Found " \o ToString(Len(promise.value)) \o " nearby bus stops")),
          loading  |-> FALSE]
    ELSE [busStops |-> busStops,
          error    |-> [message |-> "Failed to fetch nearby bus stops"],
          toasts   |-> Append(toasts, toast("error", "Failed to fetch nearby bus stops")),
          loading  |-> FALSE]

\* A variant of the catch block that tells which failure occurred.
fallbackToastWithReason(promise) == toast("info", promise.reason)

\* The toast of the catch block of handleFindNearbyStops.
fallbackToast(promise) == toast("info", "Using approximate location for demo")

\* The most toasts the model lets the finder show.
MaxToasts == 4

-----------------------------------------------------------------------------
(* App and WelcomeScreen: the search form and the screens.                  *)

availableStations == <<
    <<"D","u","r","b","a","n"," ","S","t","a","t","i","o","n">>,
    <<"U","m","h","l","a","n","g","a">>,
    <<"P","h","o","e","n","i","x">>,
    <<"C","h","a","t","s","w","o","r","t","h">>,
    <<"P","i","n","e","t","o","w","n">>,
    <<"W","e","s","t","v","i","l","l","e">>,
    <<"Q","u","e","e","n","s","b","u","r","g","h">>,
    <<"K","w","a","M","a","s","h","u">>,
    <<"U","m","l","a","z","i">>,
    <<"I","s","i","p","i","n","g","o">>,
    <<"C","e","n","t","r","a","l"," ","S","t","a","t","i","o","n">>,
    <<"N","o","r","t","h"," ","S","t","a","t","i","o","n">>,
    <<"S","o","u","t","h"," ","S","t","a","t","i","o","n">>,
    <<"E","a","s","t"," ","S","t","a","t","i","o","n">>,
    <<"W","e","s","t"," ","S","t","a","t","i","o","n">>,
    <<"A","i","r","p","o","r","t">>,
    <<"C","i","t","y"," ","C","e","n","t","e","r">>,
    <<"S","u","b","u","r","b">>>>

\* The popular routes of the welcome screen, as places in availableStations.
popularRoutes == <<[from |-> availableStations[11], to |-> availableStations[16]],
                   [from |-> availableStations[1], to |-> availableStations[2]],
                   [from |-> availableStations[11], to |-> availableStations[12]]>>

\* A variant of the catch block that shows a general message.
submitFailedGeneric(promise) ==
    [currentScreen |-> "welcome",
     prediction    |-> appPrediction,
     toasts        |-> Append(toasts, toast("error", "Failed to fetch prediction"))]

\* The catch block of handleSubmit: every rejection of the two services is an
\* Error, so its message is the one shown.
submitFailed(promise) ==
    [currentScreen |-> "welcome",
     prediction    |-> appPrediction,
     toasts        |-> Append(toasts, toast("error", promise.reason))]

\* handleSubmit from the point its await resumes: the state it leaves.
handleSubmitResumed(promise) ==
    IF promise.status = "fulfilled"
    THEN [currentScreen |-> "results", prediction |-> promise.value, toasts |-> toasts]
    ELSE submitFailed(promise)

\* A variant of handleReset that leaves the prediction in place.
handleResetKeepingPrediction ==
    [currentScreen |-> "welcome", trainNumber |-> <<>>, originStation |-> <<>>,
     destinationStation |-> <<>>, prediction |-> appPrediction]

\* handleReset: the state it leaves.
handleReset ==
    [currentScreen |-> "welcome", trainNumber |-> <<>>, originStation |-> <<>>,
     destinationStation |-> <<>>, prediction |-> null]

\* some(alt => alt.type === "bus") over the alternatives of a prediction
hasBusAlternative(prediction) ==
    \E k \in 1..Len(prediction.alternatives) : prediction.alternatives[k].type = "bus"

\* A variant that offers the bus stops for every delayed train.
busStopsButtonForAnyDelay(prediction) == prediction.delayMinutes > 0

\* ResultsScreen: the "Nearby Bus Stops" button is rendered (in the card of
\* alternate options, for a delayed train) and not disabled.
busStopsButtonEnabled(prediction) ==
    prediction.delayMinutes > 0 /\ hasBusAlternative(prediction)

\* isFormValid, and the test of handleSubmit of WelcomeScreen
isFormValid ==
    IF appSearchType = "train"
    THEN trim(appTrainNumber) # <<>>
    ELSE trim(appOriginStation) # <<>> /\ trim(appDestinationStation) # <<>>

-----------------------------------------------------------------------------
(* NearbyBusStops: directions to a stop and the directions modal.           *)

\* The condition under which the component renders DirectionsView; the modal
\* covers the page, so nothing under it can be clicked.
modalShown == directions # null /\ selectedBusStop # null /\ userLocation # null

\* The list of stops and the mini-map are rendered.
stopsShown == Len(busStops) > 0 /\ ~loading

\* The call of getDirectionsToBusStop that handleGetDirections makes.
directionsCall(busStop) ==
    [busStop |-> busStop,
     args    |-> <<userLocation.latitude, userLocation.longitude, busStop.latitude,
                   busStop.longitude, busStop.name, busStop.distance>>]

\* handleGetDirections(busStop) up to its await: the state it leaves.
handleGetDirections(busStop) ==
    IF userLocation = null
    THEN [loadingDirections |-> loadingDirections,
          selectedBusStop   |-> selectedBusStop,
          dirRequests       |-> dirRequests,
          toasts            |-> Append(toasts, toast("error", "User location not available"))]
    ELSE [loadingDirections |-> TRUE,
          selectedBusStop   |-> busStop,
          dirRequests       |-> Append(dirRequests, directionsCall(busStop)),
          toasts            |-> toasts]

\* A variant of the rest of handleGetDirections that drops a result whose
\* stop is no longer the selected one.
getDirectionsResumedForSelected(request, promise) ==
    IF promise.status = "fulfilled" /\ selectedBusStop = request.busStop
    THEN [directions        |-> promise.value,
          selectedBusStop   |-> selectedBusStop,
          toasts            |-> Append(toasts, toast("success", "Directions loaded successfully")),
          loadingDirections |-> FALSE]
    ELSE [directions        |-> directions,
          selectedBusStop   |-> selectedBusStop,
          toasts            |-> toasts,
          loadingDirections |-> loadingDirections]

\* handleGetDirections after its await, for the promise of its own call: the
\* try, catch and finally blocks.
getDirectionsResumed(request, promise) ==
    IF promise.status = "fulfilled"
    THEN [directions        |-> promise.value,
          selectedBusStop   |-> selectedBusStop,
          toasts            |-> Append(toasts, toast("success", "Directions loaded successfully")),
          loadingDirections |-> FALSE]
    ELSE [directions        |-> directions,
          selectedBusStop   |-> null,
          toasts            |-> Append(toasts, toast("error", "Failed to load directions")),
          loadingDirections |-> FALSE]

\* The most calls of getDirectionsToBusStop awaited at a time; the places of
\* the list whose stops the user clicks, and the farthest stop (in metres)
\* the user asks directions to.
MaxPending == 2

MaxClicked == 2

MaxClickedDistance == 299

-----------------------------------------------------------------------------
(* DirectionsView: the walk through the steps of the directions.            *)

\* stepDuration / progressInterval: the increments of 100 / 60 after which
\* progress, started at 0, is at least 100.
ticksPerStep == 60

\* No view is mounted (a list of steps has three steps or more).
noView == <<>>

\* The state the view is mounted with, and the state of no view.
navInitial ==
    [isNavigating |-> FALSE, currentStepIndex |-> 0, progress |-> 0, navToast |-> null]

\* handleStartNavigation: the state it leaves.
handleStartNavigation ==
    [isNavigating |-> TRUE, currentStepIndex |-> 0, progress |-> 0,
     navToast |-> toast("success", "Navigation started!")]

\* handlePauseNavigation
handlePauseNavigation ==
    [isNavigating |-> FALSE, currentStepIndex |-> currentStepIndex, progress |-> progress,
     navToast |-> toast("info", "Navigation paused")]

\* The updater passed to setCurrentStepIndex, applied to the state s: one step
\* on, or the end of the navigation on the last step.
nextStep(s) ==
    IF s.currentStepIndex < Len(navSteps) - 1
    THEN [s EXCEPT !.currentStepIndex = s.currentStepIndex + 1,
                   !.navToast = toast("success", navSteps[s.currentStepIndex + 2].instruction)]
    ELSE [s EXCEPT !.isNavigating = FALSE,
                   !.navToast = toast("success", "You've arrived at your destination!")]

\* A variant of the callback of the interval in which the updater of the step
\* index is applied twice when the progress is full.
intervalTickTwice(s) ==
    IF s.progress >= ticksPerStep
    THEN nextStep(nextStep([s EXCEPT !.progress = 0]))
    ELSE [s EXCEPT !.progress = s.progress + 1]

\* The callback of the interval, every 50 ms while navigating, applied to the
\* state s: the updater passed to setProgress and the updater it calls.
intervalTick(s) ==
    IF s.progress >= ticksPerStep
    THEN nextStep([s EXCEPT !.progress = 0])
    ELSE [s EXCEPT !.progress = s.progress + 1]

navState ==
    [isNavigating |-> isNavigating, currentStepIndex |-> currentStepIndex,
     progress |-> progress, navToast |-> navToast]

-----------------------------------------------------------------------------
(* NotificationPanel: the alerts of a result.                               *)

initialSettings ==
    [delayAlerts |-> TRUE, arrivalReminders |-> TRUE, platformChanges |-> TRUE,
     minutesBefore |-> 10]

\* The toasts of the panel: what the markup of each shows.
notificationsEnabledToast(props) ==
    [kind |-> "success", message |-> "Notifications Enabled", trainNumber |-> props.trainNumber]

delayAlertToast(props) ==
    [kind |-> "warning", message |-> "Delay Alert", trainNumber |-> props.trainNumber,
     delayMinutes |-> props.delayMinutes]

notificationsDisabledToast(props) ==
    [kind |-> "info", message |-> "Notifications disabled for", trainNumber |-> props.trainNumber]

\* A variant that sets a timeout for every train.
alertTimersAfterEnableAlways(props) == Append(alertTimers, props)

\* handleEnableNotifications: the timeouts pending after it.
alertTimersAfterEnable(props) ==
    IF props.delayMinutes > 5 THEN Append(alertTimers, props) ELSE alertTimers

\* A variant of the callback of the timeout that keeps quiet once the
\* notifications are disabled.
alertTimerFiredWhileEnabled(props) ==
    IF isEnabled THEN Append(toasts, delayAlertToast(props)) ELSE toasts

\* The callback of the timeout: the toasts after it.
alertTimerFired(props) == Append(toasts, delayAlertToast(props))

\* The most toasts the model lets the panel show.
MaxPanelToasts == 4

\* The most toasts the model lets the search form show.
MaxAppToasts == 2

-----------------------------------------------------------------------------
(* Inputs.                                                                 *)

\* The longest generated train input / station name.
MaxInputLen == 4

MaxStationLen == 2

\* All strings over an alphabet up to a length.
BoundedStrings(alphabet, n) == UNION {[1..k -> alphabet] : k \in 0..n}

TrainAlphabet == {"0", "1", "9", "t"}

NamedTrainInputs == {
    <<"t","r","a","i","n"," ","2","0","5">>,
    <<"T","r","a","i","n"," ","4","5","0">>,
    <<"1","3","2">>,
    <<"3","0","1">>,
    <<"7","7","7">>,
    <<"t","r","a","i","n"," ","0","0","0">>,
    <<"0","2","0","5">>,
    <<"1","2"," ","2","0","5">>,
    <<"2","0","5"," ","a","n","d"," ","3","0","1">>,
    <<"n","o"," ","d","i","g","i","t","s">>,
    <<"1","0","0","0">>,
    <<"T","r","a","i","n"," ","2","2","0">>}

TrainInputs == BoundedStrings(TrainAlphabet, MaxInputLen) \cup NamedTrainInputs

TrainDestinations == {
    <<>>,
    <<"U","m","h","l","a","n","g","a">>,
    <<"M","a","r","s">>,
    <<"c","o","n","s","t","r","u","c","t","o","r">>}

\* predictTrainDelay(input) and predictTrainDelay(input, destination)
TrainArgs ==
    {<<i>> : i \in TrainInputs}
        \cup (TrainInputs \X {<<"U","m","h","l","a","n","g","a">>})
        \cup (NamedTrainInputs \X TrainDestinations)

StationAlphabet == {"a", "n", " "}

NamedStations == {
    <<"D","u","r","b","a","n"," ","S","t","a","t","i","o","n">>,
    <<" ","d","u","r","b","a","n"," ","s","t","a","t","i","o","n"," ">>,
    <<"U","m","h","l","a","n","g","a">>,
    <<"U","M","H","L","A","N","G","A">>,
    <<"M","a","r","s">>,
    <<"V","e","n","u","s">>,
    <<"s","t","a","t","i","o","n">>,
    <<"D","u","r","b","a","n">>,
    <<"C","e","n","t","r","a","l">>,
    <<"N","o","r","t","h">>,
    <<"p">>,
    <<"P","i","n","e","t","o","w","n">>,
    <<"A","i","r","p","o","r","t"," ","R","o","a","d">>,
    <<"S","u","b","u","r","b">>,
    <<"c","o","n","s","t","r","u","c","t","o","r">>,
    <<"\t">>}

Stations == BoundedStrings(StationAlphabet, MaxStationLen) \cup NamedStations

RouteArgs == Stations \X Stations

\* Clock readings (minutes after midnight): just before noon and just before
\* midnight.
Times == {705, 1430}

\* The largest maxResults asked for.
MaxResultsArg == 9

\* getNearbyBusStops(lat, lon) and getNearbyBusStops(lat, lon, maxResults)
BusArgs ==
    UserLocations \cup {Append(loc, n) : loc \in UserLocations, n \in -1..MaxResultsArg}

-----------------------------------------------------------------------------
(* The calls.  Each exported function first awaits its timeout, then runs   *)
(* its body in one step and settles its promise.                            *)

\* The inputs of generateMapData: train numbers with and without a route of
\* their own, the locations of the scenario table, of the route search and
\* others, and the delays up to MaxDelay.
MaxDelay == 21

MapTrainNumbers == {
    <<"T","r","a","i","n"," ","2","0","5">>,
    <<"4","5","0">>,
    <<"T","r","a","i","n"," ","1","3","2">>,
    <<"3","0","1">>,
    <<"7","7","7">>,
    <<"9","9","9">>,
    <<"T","r","a","i","n"," ","2","2","0">>,
    <<"0","2","0","5">>,
    <<>>,
    <<"E","x","p","r","e","s","s">>}

MapLocations ==
    { trainScenarioValues[i].currentLocation : i \in 1..Len(trainScenarioValues) } \cup {
    <<>>,
    <<"E","n"," ","r","o","u","t","e">>,
    <<"E","n"," ","r","o","u","t","e"," ","f","r","o","m"," ","D","u","r","b","a","n"," ","S","t","a","t","i","o","n"," ","t","o"," ","U","m","h","l","a","n","g","a">>,
    <<"e","n"," ","r","o","u","t","e"," ","F","R","O","M"," ","a"," ","t","o"," ","b"," ","t","o"," ","c">>,
    <<"E","n"," ","r","o","u","t","e"," ","f","r","o","m"," "," ","t","o"," ","x">>,
    <<"E","n"," ","r","o","u","t","e"," ","f","r","o","m"," ","x"," ","t","o"," ">>,
    <<"C","e","n","t","r","a","l"," ","S","t","a","t","i","o","n">>,
    <<"c","e","n","t","r","a","l">>,
    <<"N","o","w","h","e","r","e">>,
    <<"J","u","n","c","t","i","o","n"," ","P","o","i","n","t">>,
    <<"A","p","p","r","o","a","c","h","i","n","g"," ","C","I","T","Y"," ","C","E","N","T","E","R">>,
    <<"s","t","a","t","i","o","n">>,
    <<"D","e","s","t","i","n","a","t","i","o","n"," ","S","t","a","t","i","o","n">>,
    <<"E","n"," ","r","o","u","t","e"," ","f","r","o","m"," ","M","a","i","n"," ","S","t","a","t","i","o","n"," ","t","o"," ","C","i","t","y"," ","H","a","l","l">>}

MapArgs == { <<t, l, d>> : t \in MapTrainNumbers, l \in MapLocations, d \in 0..MaxDelay }

\* The calls of getDirectionsToBusStop: those of the finder for a user
\* location and a stop of the table with the distance the service reported,
\* and calls with a distance chosen freely.
DirectionPairs ==
    { <<<<40750000, -73970000>>, i>> : i \in 1..Len(busStopsDatabase) }
      \cup { <<<<40800000, -74000000>>, 3>> }

DirectDistances == {0, 30, 50, 299, 300, 900, 1199}

DirectionArgs ==
    { <<p[1][1], p[1][2], busStopsDatabase[p[2]].latitude, busStopsDatabase[p[2]].longitude,
        busStopsDatabase[p[2]].name,
        formatDistance(calculateDistance(p[1][1], p[1][2], busStopsDatabase[p[2]].latitude,
                                         busStopsDatabase[p[2]].longitude))>> :
      p \in DirectionPairs }
    \cup { <<40750000, -73970000, busStopsDatabase[1].latitude, busStopsDatabase[1].longitude,
             busStopsDatabase[1].name, d>> : d \in DirectDistances }

\* What the user types into the train number field, and the stations picked
\* from the lists.
AppTrainInputs == {
    <<>>,
    <<"T","r","a","i","n"," ","2","0","5">>,
    <<"a","b","c">>,
    <<"1","0","0","0">>,
    <<"T","r","a","i","n"," ","2","2","0">>}

AppStations == { availableStations[1], availableStations[2], availableStations[16] }

-----------------------------------------------------------------------------
(* Concurrent calls of the services.  The four exported functions are      *)
(* async: a call binds its parameters, awaits its timeout (2500 ms, 800 ms *)
(* or 1000 ms) and then runs its body in one step of the event loop.       *)
(* Calls are in progress together; their timeouts fire in any order.       *)

\* The objects declared at module level that the bodies read.  No body
\* assigns to one of them or to a field of one.
moduleTables ==
    [trainScenarios   |-> trainScenarioValues,
     routeMapping     |-> routeMappingValues,
     baseTravelTimes  |-> baseTravelTimeValues,
     busStopsDatabase |-> busStopsDatabase]

\* The most calls in progress at a time.
MaxCalls == 2

\* The calls made concurrently: of each function one that takes its plain
\* path and one that reads the clock, fails, draws at random (the turns of
\* the directions) or cuts the list of stops.
ConcurrentCalls == <<
    [fn |-> "predictTrainDelay", args |-> << <<"t","r","a","i","n"," ","2","0","5">> >>],
    [fn |-> "predictTrainDelay",
     args |-> << <<"T","r","a","i","n"," ","4","5","0">>, <<"U","m","h","l","a","n","g","a">> >>],
    [fn |-> "predictTrainDelay", args |-> << <<"1","0","0","0">> >>],
    [fn |-> "predictTrainDelayByRoute",
     args |-> << <<"D","u","r","b","a","n"," ","S","t","a","t","i","o","n">>,
                 <<"U","m","h","l","a","n","g","a">> >>],
    [fn |-> "predictTrainDelayByRoute", args |-> << <<"M","a","r","s">>, <<>> >>],
    [fn |-> "getNearbyBusStops", args |-> <<40750000, -73970000>>],
    [fn |-> "getNearbyBusStops", args |-> <<40747378, -73975139, 3>>],
    [fn |-> "getDirectionsToBusStop",
     args |-> <<40750000, -73970000, busStopsDatabase[1].latitude,
                busStopsDatabase[1].longitude, busStopsDatabase[1].name, 30>>],
    [fn |-> "getDirectionsToBusStop",
     args |-> <<40750000, -73970000, busStopsDatabase[1].latitude,
                busStopsDatabase[1].longitude, busStopsDatabase[1].name, 300>>] >>

\* A variant that keeps the parameters in one place for all calls: a body
\* reads those of the call made last.
argumentsOfLatest(inProgress, i) == inProgress[Len(inProgress)].args

\* The parameters a body reads are those its own call bound.
argumentsOf(inProgress, i) == inProgress[i].args

\* The clock a body reads: the prediction functions take new Date(), the
\* other two read no clock.
clockReadings(fn) ==
    IF fn \in {"predictTrainDelay", "predictTrainDelayByRoute"} THEN Times ELSE {0}

\* The promises the body of a function settles to, for the parameters and
\* the clock it reads.
bodyOutcomes(fn, args, now) ==
    CASE fn = "predictTrainDelay"        -> predictTrainDelay(args, now)
      [] fn = "predictTrainDelayByRoute" -> predictTrainDelayByRoute(args, now)
      [] fn = "getNearbyBusStops"        -> {Fulfilled(getNearbyBusStops(args))}
      [] fn = "getDirectionsToBusStop"   -> getDirectionsToBusStop(args)

\* The lists of steps the view is opened with: every list of a walk of 0, 30
\* and 300 metres, and one list each of 600 and 900 metres.
NavStepLists ==
    UNION { generateDirectionSteps(d, d * 12) : d \in {0, 30, 300} }
      \cup { CHOOSE steps \in generateDirectionSteps(d, d * 12) : TRUE : d \in {600, 900} }

\* The props of the panel: the results of the trains of the scenario table.
PanelProps ==
    { [trainNumber  |-> trainScenarioValues[i].trainNumber,
       delayMinutes |-> trainScenarioValues[i].delayMinutes] :
      i \in 1..Len(trainScenarioValues) }

\* The changes of a setting the user makes.
SettingChanges == {<<"delayAlerts", FALSE>>, <<"delayAlerts", TRUE>>}

NoLocals == [trainNumber |-> <<>>, matchingTrains |-> <<>>, now |-> 0]

Init ==
    /\ tpc = "idle" /\ targs = <<>> /\ tlocals = NoLocals /\ tresult = Pending
    /\ rpc = "idle" /\ rargs = <<>> /\ rlocals = NoLocals /\ rresult = Pending
    /\ bpc = "idle" /\ bargs = <<>> /\ bresult = Pending
    /\ mpc = "idle" /\ margs = <<>> /\ mlocals = NoMapLocals /\ mresult = NoMapData
    /\ dpc = "idle" /\ dargs = <<>> /\ dresult = Pending
    /\ fpc = "idle" /\ busStops = <<>> /\ loading = FALSE /\ error = null
    /\ userLocation = null /\ hasRequested = FALSE /\ toasts = <<>> /\ geoPromise = Pending
    /\ currentScreen = "welcome" /\ appTrainNumber = <<>> /\ appOriginStation = <<>>
    /\ appDestinationStation = <<>> /\ appPrediction = null /\ appSearchType = "train"
    /\ appCall = null
    /\ calls = <<>> /\ tables = moduleTables
    /\ selectedBusStop = null /\ directions = null /\ loadingDirections = FALSE /\ dirRequests = <<>>
    /\ navSteps = noView /\ isNavigating = FALSE /\ currentStepIndex = 0 /\ progress = 0 /\ navToast = null
    /\ panelProps = null /\ isEnabled = FALSE /\ isOpen = FALSE /\ settings = initialSettings /\ alertTimers = <<>>

TrainCall ==
    /\ tpc = "idle"
    /\ \E args \in TrainArgs : targs' = args
    /\ tpc' = "waiting"
    /\ UNCHANGED <<tlocals, tresult, exceptTrain>>

TrainSettle ==
    /\ tpc = "waiting"
    /\ \E now \in Times :
         /\ tresult' \in predictTrainDelay(targs, now)
         /\ tlocals' = [NoLocals EXCEPT !.trainNumber = extractTrainNumber(targs[1]),
                                        !.now = now]
    /\ tpc' = "settled"
    /\ UNCHANGED <<targs, exceptTrain>>

\* The caller has taken the result; the next call starts afresh.
TrainReturn ==
    /\ tpc = "settled"
    /\ tpc' = "idle" /\ targs' = <<>> /\ tlocals' = NoLocals /\ tresult' = Pending
    /\ UNCHANGED <<exceptTrain>>

RouteCall ==
    /\ rpc = "idle"
    /\ \E args \in RouteArgs : rargs' = args
    /\ rpc' = "waiting"
    /\ UNCHANGED <<rlocals, rresult, exceptRoute>>

RouteSettle ==
    /\ rpc = "waiting"
    /\ \E now \in Times :
         /\ rresult' \in predictTrainDelayByRoute(rargs, now)
         /\ rlocals' = [NoLocals EXCEPT
                          !.matchingTrains =
                              IF missingStation(rargs[1], rargs[2]) THEN <<>>
                              ELSE findTrainsByRoute(rargs[1], rargs[2]),
                          !.now = now]
    /\ rpc' = "settled"
    /\ UNCHANGED <<rargs, exceptRoute>>

RouteReturn ==
    /\ rpc = "settled"
    /\ rpc' = "idle" /\ rargs' = <<>> /\ rlocals' = NoLocals /\ rresult' = Pending
    /\ UNCHANGED <<exceptRoute>>

BusCall ==
    /\ bpc = "idle"
    /\ \E args \in BusArgs : bargs' = args
    /\ bpc' = "waiting"
    /\ UNCHANGED <<bresult, exceptBus>>

BusSettle ==
    /\ bpc = "waiting"
    /\ bresult' = Fulfilled(getNearbyBusStops(bargs))
    /\ bpc' = "settled"
    /\ UNCHANGED <<bargs, exceptBus>>

BusReturn ==
    /\ bpc = "settled"
    /\ bpc' = "idle" /\ bargs' = <<>> /\ bresult' = Pending
    /\ UNCHANGED <<exceptBus>>

NextTrain == TrainCall \/ TrainSettle \/ TrainReturn

NextRoute == RouteCall \/ RouteSettle \/ RouteReturn

SpecTrain == Init /\ [][NextTrain]_vars

SpecRoute == Init /\ [][NextRoute]_vars

\* A caller that uses both prediction functions, one call at a time.
NextPredict == (rpc = "idle" /\ NextTrain) \/ (tpc = "idle" /\ NextRoute)

SpecPredict == Init /\ [][NextPredict]_vars

NextBus == BusCall \/ BusSettle \/ BusReturn

SpecBus == Init /\ [][NextBus]_vars

\* generateMapData is synchronous: the call runs to its return in one step.
MapCall ==
    /\ mpc = "idle"
    /\ \E args \in MapArgs :
         /\ margs' = args
         /\ mlocals' = mapLocalsOf(args)
         /\ mresult' = mapDataOf(mlocals')
    /\ mpc' = "done"
    /\ UNCHANGED <<exceptMap>>

\* The caller has rendered the map; the next call starts afresh.
MapReturn ==
    /\ mpc = "done"
    /\ mpc' = "idle" /\ margs' = <<>> /\ mlocals' = NoMapLocals /\ mresult' = NoMapData
    /\ UNCHANGED <<exceptMap>>

NextMap == MapCall \/ MapReturn

SpecMap == Init /\ [][NextMap]_vars

DirCall ==
    /\ dpc = "idle"
    /\ \E args \in DirectionArgs : dargs' = args
    /\ dpc' = "waiting"
    /\ UNCHANGED <<dresult, exceptDir>>

DirSettle ==
    /\ dpc = "waiting"
    /\ dresult' \in getDirectionsToBusStop(dargs)
    /\ dpc' = "settled"
    /\ UNCHANGED <<dargs, exceptDir>>

DirReturn ==
    /\ dpc = "settled"
    /\ dpc' = "idle" /\ dargs' = <<>> /\ dresult' = Pending
    /\ UNCHANGED <<exceptDir>>

NextDir == DirCall \/ DirSettle \/ DirReturn

SpecDir == Init /\ [][NextDir]_vars

\* NearbyBusStops renders DirectionsView: the view is mounted with its props
\* and its initial state.
OpenDirectionsView ==
    /\ navSteps = noView
    /\ \E steps \in NavStepLists : navSteps' = steps
    /\ isNavigating' = navInitial.isNavigating
    /\ currentStepIndex' = navInitial.currentStepIndex
    /\ progress' = navInitial.progress
    /\ navToast' = navInitial.navToast
    /\ UNCHANGED <<exceptNav>>

\* "Start Navigation", shown while not navigating
StartNavigation ==
    /\ navSteps # noView
    /\ ~isNavigating
    /\ isNavigating' = handleStartNavigation.isNavigating
    /\ currentStepIndex' = handleStartNavigation.currentStepIndex
    /\ progress' = handleStartNavigation.progress
    /\ navToast' = handleStartNavigation.navToast
    /\ UNCHANGED <<navSteps, exceptNav>>

\* "Pause Navigation", shown while navigating
PauseNavigation ==
    /\ navSteps # noView
    /\ isNavigating
    /\ isNavigating' = handlePauseNavigation.isNavigating
    /\ currentStepIndex' = handlePauseNavigation.currentStepIndex
    /\ progress' = handlePauseNavigation.progress
    /\ navToast' = handlePauseNavigation.navToast
    /\ UNCHANGED <<navSteps, exceptNav>>

\* The interval of the effect fires; the effect keeps an interval only while
\* isNavigating.
ProgressTick ==
    /\ navSteps # noView
    /\ isNavigating
    /\ isNavigating' = intervalTick(navState).isNavigating
    /\ currentStepIndex' = intervalTick(navState).currentStepIndex
    /\ progress' = intervalTick(navState).progress
    /\ navToast' = intervalTick(navState).navToast
    /\ UNCHANGED <<navSteps, exceptNav>>

\* onClose: the view is unmounted, its state and its interval are dropped.
CloseDirectionsView ==
    /\ navSteps # noView
    /\ navSteps' = noView
    /\ isNavigating' = navInitial.isNavigating
    /\ currentStepIndex' = navInitial.currentStepIndex
    /\ progress' = navInitial.progress
    /\ navToast' = navInitial.navToast
    /\ UNCHANGED <<exceptNav>>

NextNav ==
    \/ OpenDirectionsView \/ StartNavigation \/ PauseNavigation \/ ProgressTick
    \/ CloseDirectionsView

SpecNav == Init /\ [][NextNav]_vars

\* The interval fires every 50 ms for as long as the view navigates.
SpecNavFair == SpecNav /\ WF_vars(ProgressTick)

\* ResultsScreen renders the panel for its prediction.
MountPanel ==
    /\ panelProps = null
    /\ \E props \in PanelProps : panelProps' = props
    /\ isEnabled' = FALSE /\ isOpen' = FALSE /\ settings' = initialSettings
    /\ UNCHANGED <<alertTimers, toasts, exceptPanel>>

\* The results screen is left: the state of the panel is dropped, its
\* timeouts are not cleared.
UnmountPanel ==
    /\ panelProps # null
    /\ panelProps' = null
    /\ isEnabled' = FALSE /\ isOpen' = FALSE /\ settings' = initialSettings
    /\ UNCHANGED <<alertTimers, toasts, exceptPanel>>

\* "Enable", shown while not enabled: handleEnableNotifications
EnableNotifications ==
    /\ panelProps # null
    /\ ~isEnabled /\ ~isOpen
    /\ Len(toasts) + Len(alertTimers) + 2 <= MaxPanelToasts
    /\ isEnabled' = TRUE
    /\ isOpen' = TRUE
    /\ toasts' = Append(toasts, notificationsEnabledToast(panelProps))
    /\ alertTimers' = alertTimersAfterEnable(panelProps)
    /\ UNCHANGED <<panelProps, settings, exceptPanel>>

\* "Disable" of the dialog: handleDisableNotifications
DisableNotifications ==
    /\ panelProps # null
    /\ isOpen
    /\ Len(toasts) + Len(alertTimers) < MaxPanelToasts
    /\ isEnabled' = FALSE
    /\ toasts' = Append(toasts, notificationsDisabledToast(panelProps))
    /\ UNCHANGED <<panelProps, isOpen, settings, alertTimers, exceptPanel>>

\* "Settings", shown while enabled, opens the dialog; "Done", Escape or a
\* click outside closes it.
OpenSettings ==
    /\ panelProps # null
    /\ isEnabled /\ ~isOpen
    /\ isOpen' = TRUE
    /\ UNCHANGED <<panelProps, isEnabled, settings, alertTimers, toasts, exceptPanel>>

CloseSettings ==
    /\ panelProps # null
    /\ isOpen
    /\ isOpen' = FALSE
    /\ UNCHANGED <<panelProps, isEnabled, settings, alertTimers, toasts, exceptPanel>>

\* A switch of the dialog: updateSetting(key, value)
UpdateSetting ==
    /\ panelProps # null
    /\ isOpen
    /\ Len(toasts) + Len(alertTimers) < MaxPanelToasts
    /\ \E change \in SettingChanges :
         settings' = [settings EXCEPT ![change[1]] = change[2]]
    /\ toasts' = Append(toasts, toast("success", "Notification settings updated"))
    /\ UNCHANGED <<panelProps, isEnabled, isOpen, alertTimers, exceptPanel>>

\* The oldest timeout fires, 2000 ms after its Enable.
AlertTimerFires ==
    /\ alertTimers # <<>>
    /\ toasts' = alertTimerFired(Head(alertTimers))
    /\ alertTimers' = Tail(alertTimers)
    /\ UNCHANGED <<panelProps, isEnabled, isOpen, settings, exceptPanel>>

NextPanel ==
    \/ MountPanel \/ UnmountPanel \/ EnableNotifications \/ DisableNotifications
    \/ OpenSettings \/ CloseSettings \/ UpdateSetting \/ AlertTimerFires

SpecPanel == Init /\ [][NextPanel]_vars

\* A caller calls a service function: the call binds its parameters and
\* awaits its timeout.
Invoke ==
    /\ Len(calls) < MaxCalls
    /\ \E k \in 1..Len(ConcurrentCalls) :
         calls' = Append(calls, [fn |-> ConcurrentCalls[k].fn, args |-> ConcurrentCalls[k].args,
                                 pc |-> "waiting", now |-> 0, result |-> Pending])
    /\ UNCHANGED <<tables, exceptConc>>

\* The timeout of one of the calls fires and its body runs to the end.
TimerFires ==
    /\ \E i \in 1..Len(calls) : \E now \in clockReadings(calls[i].fn) :
         /\ calls[i].pc = "waiting"
         /\ \E promise \in bodyOutcomes(calls[i].fn, argumentsOf(calls, i), now) :
              calls' = [calls EXCEPT ![i].pc = "settled", ![i].now = now,
                                     ![i].result = promise]
    /\ UNCHANGED <<tables, exceptConc>>

\* The caller of a settled call takes its result.
Collect ==
    /\ \E i \in 1..Len(calls) :
         /\ calls[i].pc = "settled"
         /\ calls' = [k \in 1..(Len(calls) - 1) |-> IF k < i THEN calls[k] ELSE calls[k + 1]]
    /\ UNCHANGED <<tables, exceptConc>>

NextConcurrent == Invoke \/ TimerFires \/ Collect

SpecConcurrent == Init /\ [][NextConcurrent]_vars

\* onTrainNumberChange: typing into the field or a quick example
SetTrainNumber ==
    /\ currentScreen = "welcome"
    /\ \E value \in AppTrainInputs : appTrainNumber' = value
    /\ UNCHANGED <<currentScreen, appOriginStation, appDestinationStation, appPrediction,
                   appSearchType, appCall, toasts, exceptApp>>

\* onOriginChange
SetOriginStation ==
    /\ currentScreen = "welcome"
    /\ \E value \in AppStations : appOriginStation' = value
    /\ UNCHANGED <<currentScreen, appTrainNumber, appDestinationStation, appPrediction,
                   appSearchType, appCall, toasts, exceptApp>>

\* onDestinationChange
SetDestinationStation ==
    /\ currentScreen = "welcome"
    /\ \E value \in AppStations : appDestinationStation' = value
    /\ UNCHANGED <<currentScreen, appTrainNumber, appOriginStation, appPrediction,
                   appSearchType, appCall, toasts, exceptApp>>

\* A popular route button: onOriginChange and onDestinationChange
SelectPopularRoute ==
    /\ currentScreen = "welcome"
    /\ appSearchType = "route"
    /\ \E k \in 1..Len(popularRoutes) :
         /\ appOriginStation' = popularRoutes[k].from
         /\ appDestinationStation' = popularRoutes[k].to
    /\ UNCHANGED <<currentScreen, appTrainNumber, appPrediction,
                   appSearchType, appCall, toasts, exceptApp>>

\* The tabs of the welcome screen
SetSearchType ==
    /\ currentScreen = "welcome"
    /\ appSearchType' = IF appSearchType = "train" THEN "route" ELSE "train"
    /\ UNCHANGED <<currentScreen, appTrainNumber, appOriginStation, appDestinationStation,
                   appPrediction, appCall, toasts, exceptApp>>

\* The form is submitted: handleSubmit of WelcomeScreen, then handleSubmit of
\* App up to its await.  (WelcomeScreen calls onSubmit for a valid form only,
\* so the two tests of App never stop a submit.)
Submit ==
    /\ currentScreen = "welcome"
    /\ isFormValid
    /\ Len(toasts) < MaxAppToasts
    /\ IF appSearchType = "train" /\ trim(appTrainNumber) = <<>>
       THEN /\ toasts' = Append(toasts, toast("error", "Please enter a train number"))
            /\ UNCHANGED <<currentScreen, appCall>>
       ELSE IF appSearchType = "route"
               /\ (trim(appOriginStation) = <<>> \/ trim(appDestinationStation) = <<>>)
       THEN /\ toasts' = Append(toasts, toast("error",
                             "Please enter both origin and destination stations"))
            /\ UNCHANGED <<currentScreen, appCall>>
       ELSE /\ currentScreen' = "processing"
            /\ appCall' = IF appSearchType = "train"
                          THEN [fn   |-> "predictTrainDelay",
                                args |-> <<appTrainNumber, appDestinationStation>>]
                          ELSE [fn   |-> "predictTrainDelayByRoute",
                                args |-> <<appOriginStation, appDestinationStation>>]
            /\ UNCHANGED toasts
    /\ UNCHANGED <<appTrainNumber, appOriginStation, appDestinationStation, appPrediction,
                   appSearchType, exceptApp>>

\* The promises the call that handleSubmit awaits can settle to.
serviceOutcomes(call) ==
    UNION { IF call.fn = "predictTrainDelay"
            THEN predictTrainDelay(call.args, now)
            ELSE predictTrainDelayByRoute(call.args, now) : now \in Times }

\* The service settles (after its 2500 ms) and handleSubmit runs to its end.
\* A welcome screen that is shown again starts on the train tab.
PredictionSettled ==
    /\ currentScreen = "processing"
    /\ appCall # null
    /\ \E promise \in serviceOutcomes(appCall) :
         /\ currentScreen' = handleSubmitResumed(promise).currentScreen
         /\ appPrediction' = handleSubmitResumed(promise).prediction
         /\ toasts' = handleSubmitResumed(promise).toasts
    /\ appCall' = null
    /\ appSearchType' = "train"
    /\ UNCHANGED <<appTrainNumber, appOriginStation, appDestinationStation, exceptApp>>

\* handleReset
Reset ==
    /\ currentScreen = "results"
    /\ currentScreen' = handleReset.currentScreen
    /\ appTrainNumber' = handleReset.trainNumber
    /\ appOriginStation' = handleReset.originStation
    /\ appDestinationStation' = handleReset.destinationStation
    /\ appPrediction' = handleReset.prediction
    /\ appSearchType' = "train"
    /\ UNCHANGED <<appCall, toasts, exceptApp>>

\* The enabled "Nearby Bus Stops" button of the results screen:
\* handleNavigateToBusStops
NavigateToBusStops ==
    /\ currentScreen = "results"
    /\ busStopsButtonEnabled(appPrediction)
    /\ currentScreen' = "busStops"
    /\ UNCHANGED <<appTrainNumber, appOriginStation, appDestinationStation, appPrediction,
                   appSearchType, appCall, toasts, exceptApp>>

\* handleBackToResults
BackToResults ==
    /\ currentScreen = "busStops"
    /\ currentScreen' = "results"
    /\ UNCHANGED <<appTrainNumber, appOriginStation, appDestinationStation, appPrediction,
                   appSearchType, appCall, toasts, exceptApp>>

NextApp ==
    \/ SetTrainNumber \/ SetOriginStation \/ SetDestinationStation \/ SelectPopularRoute
    \/ SetSearchType \/ Submit \/ PredictionSettled \/ Reset
    \/ NavigateToBusStops \/ BackToResults

SpecApp == Init /\ [][NextApp]_vars

\* A button that calls handleFindNearbyStops is on the screen and enabled:
\* "Find Stops" before the first request, "Try Again" beside an error,
\* "Refresh Location" under the list of stops.
findButtonShown ==
    \/ ~hasRequested /\ ~loading
    \/ error # null /\ ~loading
    \/ Len(busStops) > 0 /\ ~loading

\* handleFindNearbyStops up to its await of requestUserLocation
FindNearbyStops ==
    /\ fpc = "idle"
    /\ findButtonShown
    /\ Len(toasts) + 2 <= MaxToasts
    /\ hasRequested' = TRUE /\ loading' = TRUE /\ error' = null
    /\ fpc' = "locating"
    /\ UNCHANGED <<busStops, userLocation, toasts, geoPromise, exceptFinder>>

\* requestUserLocation resolves: setUserLocation, then fetchNearbyStops up to
\* its await of getNearbyBusStops
LocationFound ==
    /\ fpc = "locating"
    /\ \E promise \in requestUserLocation :
         /\ promise.status = "fulfilled"
         /\ geoPromise' = promise
         /\ userLocation' = promise.value.coords
    /\ loading' = TRUE /\ error' = null
    /\ fpc' = "fetching"
    /\ UNCHANGED <<busStops, hasRequested, toasts, exceptFinder>>

\* requestUserLocation rejects: the catch block up to its await of
\* getUserLocation
LocationFailed ==
    /\ fpc = "locating"
    /\ \E promise \in requestUserLocation :
         /\ promise.status = "rejected"
         /\ geoPromise' = promise
         /\ toasts' = Append(toasts, fallbackToast(promise))
    /\ fpc' = "fallback"
    /\ UNCHANGED <<busStops, loading, error, userLocation, hasRequested, exceptFinder>>

\* getUserLocation resolves after 500 ms: setUserLocation(mockLocation), then
\* fetchNearbyStops up to its await
FallbackLocated ==
    /\ fpc = "fallback"
    /\ userLocation' = getUserLocation
    /\ loading' = TRUE /\ error' = null
    /\ fpc' = "fetching"
    /\ UNCHANGED <<busStops, hasRequested, toasts, geoPromise, exceptFinder>>

\* getNearbyBusStops(lat, lon, 5) resolves after 800 ms and fetchNearbyStops
\* runs to its end; handleFindNearbyStops ends with it.
StopsFetched ==
    /\ fpc = "fetching"
    /\ LET after == fetchNearbyStopsResumed(
                        Fulfilled(getNearbyBusStops(<<userLocation.latitude,
                                                      userLocation.longitude, 5>>)))
       IN  /\ busStops' = after.busStops
           /\ error' = after.error
           /\ toasts' = after.toasts
           /\ loading' = after.loading
    /\ fpc' = "idle"
    /\ geoPromise' = Pending
    /\ UNCHANGED <<userLocation, hasRequested, exceptFinder>>

NextFinder ==
    FindNearbyStops \/ LocationFound \/ LocationFailed \/ FallbackLocated \/ StopsFetched

SpecFinder == Init /\ [][NextFinder]_vars

\* "Get Directions" of a stop of the list: disabled while directions load.
GetDirections ==
    /\ stopsShown /\ ~modalShown
    /\ ~loadingDirections
    /\ Len(dirRequests) < MaxPending
    /\ Len(toasts) + Len(dirRequests) < MaxToasts
    /\ \E k \in 1..MaxClicked :
         /\ k <= Len(busStops)
         /\ busStops[k].distance <= MaxClickedDistance
         /\ LET after == handleGetDirections(busStops[k])
            IN  /\ loadingDirections' = after.loadingDirections
                /\ selectedBusStop' = after.selectedBusStop
                /\ dirRequests' = after.dirRequests
                /\ toasts' = after.toasts
    /\ UNCHANGED <<directions, exceptModal>>

\* "Directions" in the tooltip of a stop of the mini-map: onGetDirections is
\* handleGetDirections, and the button is never disabled.
GetDirectionsFromMap ==
    /\ stopsShown /\ ~modalShown
    /\ Len(dirRequests) < MaxPending
    /\ Len(toasts) + Len(dirRequests) < MaxToasts
    /\ \E k \in 1..MaxClicked :
         /\ k <= Len(busStops)
         /\ busStops[k].distance <= MaxClickedDistance
         /\ LET after == handleGetDirections(busStops[k])
            IN  /\ loadingDirections' = after.loadingDirections
                /\ selectedBusStop' = after.selectedBusStop
                /\ dirRequests' = after.dirRequests
                /\ toasts' = after.toasts
    /\ UNCHANGED <<directions, exceptModal>>

\* The oldest call of getDirectionsToBusStop settles (every call takes
\* 1000 ms, so the calls settle in the order they were made) and its
\* handleGetDirections runs to the end.
DirectionsLoaded ==
    /\ dirRequests # <<>>
    /\ \E promise \in getDirectionsToBusStop(Head(dirRequests).args) :
         LET after == getDirectionsResumed(Head(dirRequests), promise)
         IN  /\ directions' = after.directions
             /\ selectedBusStop' = after.selectedBusStop
             /\ toasts' = after.toasts
             /\ loadingDirections' = after.loadingDirections
    /\ dirRequests' = Tail(dirRequests)
    /\ UNCHANGED <<exceptModal>>

\* handleCloseDirections: onClose of the modal
CloseDirections ==
    /\ modalShown
    /\ selectedBusStop' = null /\ directions' = null
    /\ UNCHANGED <<loadingDirections, dirRequests, toasts, exceptModal>>

NextModal ==
    NextFinder \/ GetDirections \/ GetDirectionsFromMap \/ DirectionsLoaded \/ CloseDirections

SpecModal == Init /\ [][NextModal]_vars

\* The step of StopsFetched as the finder's position shows it: the only step
\* of NextFinder from "fetching" to "idle", possible in every "fetching" state.
FetchTimerFires == fpc = "fetching" /\ fpc' = "idle"

\* The timers of getUserLocation (500 ms) and getNearbyBusStops (800 ms) fire.
SpecFinderFair ==
    SpecFinder /\ WF_vars(FallbackLocated) /\ WF_fpc(FetchTimerFires)

-----------------------------------------------------------------------------
(* What the claims speak about, stated without the code's own helpers.      *)

HasDigit(s) == \E i \in 1..Len(s) : IsDigit(s[i])

\* The first contiguous run of digits of s (for an s that has a digit).
FirstDigitRun(s) ==
    LET first == CHOOSE i \in 1..Len(s) :
                    IsDigit(s[i]) /\ \A j \in 1..(i - 1) : ~IsDigit(s[j])
        last  == CHOOSE e \in first..Len(s) :
                    /\ \A k \in first..e : IsDigit(s[k])
                    /\ (e = Len(s) \/ ~IsDigit(s[e + 1]))
    IN  SubSeq(s, first, last)

\* A digit string read as a decimal number.
RECURSIVE DecimalValue(_)
DecimalValue(d) ==
    IF d = <<>> THEN 0
    ELSE 10 * DecimalValue(SubSeq(d, 1, Len(d) - 1)) + DigitVal(d[Len(d)])

EmbeddedNumber(s) == DecimalValue(FirstDigitRun(s))

ScenarioIndexes == 1..Len(trainScenarioKeys)

IsScenarioNumber(n) == \E i \in ScenarioIndexes : DecimalValue(trainScenarioKeys[i]) = n

ScenarioEntry(n) ==
    trainScenarioValues[CHOOSE i \in ScenarioIndexes : DecimalValue(trainScenarioKeys[i]) = n]

TrainPrefix == <<"T","r","a","i","n"," ">>

TrainSettled == tpc = "settled"

TrainInput == targs[1]

NonEmptyDestinationSupplied == Len(targs) >= 2 /\ Len(targs[2]) > 0

\* predictTrainDelay returned a prediction made by generateRandomPrediction:
\* the number is valid and the digit run is no key of the scenario table.
Synthesized ==
    /\ TrainSettled
    /\ HasDigit(TrainInput)
    /\ EmbeddedNumber(TrainInput) \in 100..999
    /\ \A i \in ScenarioIndexes : trainScenarioKeys[i] # FirstDigitRun(TrainInput)

-----------------------------------------------------------------------------
(* C1..C3, C7, C8: predictTrainDelay (under SpecTrain).                     *)

\* C1: when the first digit run of the input, read as a decimal number, is in
\* [100,999] and is a train of the scenario table, the prediction equals that
\* table entry in every field but eta, and in eta too unless a non-empty
\* destination is supplied.
C1_ScenarioEntryReturned ==
    (/\ TrainSettled
     /\ HasDigit(TrainInput)
     /\ EmbeddedNumber(TrainInput) \in 100..999
     /\ IsScenarioNumber(EmbeddedNumber(TrainInput)))
    => LET entry == ScenarioEntry(EmbeddedNumber(TrainInput))
       IN  /\ tresult.status = "fulfilled"
           /\ [tresult.value EXCEPT !.eta = entry.eta] = entry
           /\ (~NonEmptyDestinationSupplied => tresult.value.eta = entry.eta)

\* C2: an input whose parsed number is below 100 or above 999 is rejected with
\* the range error (no prediction), and a number in [100,999] never is.
C2_RangeValidation ==
    (TrainSettled /\ HasDigit(TrainInput))
    => LET n == EmbeddedNumber(TrainInput)
       IN  /\ (n < 100 \/ n > 999) <=> (tresult = Rejected(RangeError))
           /\ (n \in 100..999) => tresult.status = "fulfilled"

C2_Witness ==
    /\ TrainSettled
    /\ HasDigit(TrainInput)
    /\ EmbeddedNumber(TrainInput) > 999
    /\ tresult = Rejected(RangeError)

C7_SynthesizedRisk ==
    Synthesized
    => LET p == tresult.value
       IN  /\ p.delayMinutes \in {0, 5, 8, 12, 15, 20}
           /\ p.riskLevel = "high" <=> p.delayMinutes > 18
           /\ p.riskLevel = "medium" <=> (p.delayMinutes > 10 /\ p.delayMinutes <= 18)
           /\ p.riskLevel = "low" <=> p.delayMinutes <= 10

C7_Witness == Synthesized /\ tresult.value.delayMinutes = 20 /\ tresult.value.riskLevel = "high"

\* C8: in a synthesized prediction, alternatives is empty exactly when
\* delayMinutes <= 10; otherwise it holds one alternative of type train, named
\* "Train " plus the decimal form of the train number plus 5.
C8_SynthesizedAlternatives ==
    Synthesized
    => LET p == tresult.value
           a == p.alternatives
       IN  /\ (a = <<>>) <=> (p.delayMinutes <= 10)
           /\ p.delayMinutes > 10
                => /\ Len(a) = 1
                   /\ a[1].type = "train"
                   /\ SubSeq(a[1].name, 1, Len(TrainPrefix)) = TrainPrefix
                   /\ LET number == SubSeq(a[1].name, Len(TrainPrefix) + 1, Len(a[1].name))
                      IN  /\ \A i \in 1..Len(number) : IsDigit(number[i])
                          /\ number[1] # "0"
                          /\ DecimalValue(number) = EmbeddedNumber(TrainInput) + 5

\* A synthesized prediction with an alternative, for an input with a leading zero.
C8_Witness ==
    /\ Synthesized
    /\ tresult.value.delayMinutes > 10
    /\ Head(FirstDigitRun(TrainInput)) = "0"

-----------------------------------------------------------------------------
(* C4..C6, C9: predictTrainDelayByRoute (under SpecRoute).                  *)

\* Empty after trimming: nothing but white space.
Blank(s) == \A i \in 1..Len(s) : IsWhiteSpace(s[i])

\* s without its leading and trailing white space.
Core(s) ==
    IF Blank(s) THEN <<>>
    ELSE LET first == CHOOSE i \in 1..Len(s) :
                         ~IsWhiteSpace(s[i]) /\ \A j \in 1..(i - 1) : IsWhiteSpace(s[j])
             last  == CHOOSE i \in 1..Len(s) :
                         ~IsWhiteSpace(s[i]) /\ \A j \in (i + 1)..Len(s) : IsWhiteSpace(s[j])
         IN  SubSeq(s, first, last)

Normalized(s) == toLowerCase(Core(s))

\* t is a substring of s.
Within(t, s) == \E a \in 1..(Len(s) + 1), b \in 0..Len(s) : SubSeq(s, a, b) = t

Related(s, t) == Within(s, t) \/ Within(t, s)

RouteIndexes == 1..Len(routeMappingKeys)

DashOf(i) == CHOOSE p \in 1..Len(routeMappingKeys[i]) : routeMappingKeys[i][p] = "-"

KeyOrigin(i) == SubSeq(routeMappingKeys[i], 1, DashOf(i) - 1)

KeyDestination(i) == SubSeq(routeMappingKeys[i], DashOf(i) + 1, Len(routeMappingKeys[i]))

RouteSettled == rpc = "settled"

Origin == rargs[1]

Destination == rargs[2]

IsKey(i) == KeyOrigin(i) = Normalized(Origin) /\ KeyDestination(i) = Normalized(Destination)

PartlyMatches(i) ==
    /\ Related(KeyOrigin(i), Normalized(Origin))
    /\ Related(KeyDestination(i), Normalized(Destination))

DurbanStation == <<"D","u","r","b","a","n"," ","S","t","a","t","i","o","n">>

Umhlanga == <<"U","m","h","l","a","n","g","a">>

Mars == <<"M","a","r","s">>

Venus == <<"V","e","n","u","s">>

\* C4: the call fails with the validation error whenever origin or destination
\* is empty after trimming, and returns a prediction otherwise.
C4_StationsValidation ==
    RouteSettled
    => IF Blank(Origin) \/ Blank(Destination)
       THEN rresult = Rejected(StationsError)
       ELSE rresult.status = "fulfilled"

\* An origin of white space only, with a proper destination, was rejected.
C4_Witness ==
    /\ RouteSettled
    /\ Len(Origin) > 0 /\ Blank(Origin) /\ ~Blank(Destination)
    /\ rresult = Rejected(StationsError)

\* C5: a normalized pair that is a key of the route table gets that key's
\* trains, a pair that no key equals or partly matches gets the default
\* ["301"]; ("Durban Station","Umhlanga") gets ["205"] and ("Mars","Venus")
\* gets ["301"].  The prediction returned is the one of the first train.
C5_DirectMatchAndDefault ==
    (RouteSettled /\ rresult.status = "fulfilled")
    => /\ \A i \in RouteIndexes : IsKey(i) => rlocals.matchingTrains = routeMappingValues[i]
       /\ (\A i \in RouteIndexes : ~PartlyMatches(i))
            => rlocals.matchingTrains = <<<<"3","0","1">>>>
       /\ (Origin = DurbanStation /\ Destination = Umhlanga)
            => rlocals.matchingTrains = <<<<"2","0","5">>>>
       /\ (Origin = Mars /\ Destination = Venus)
            => rlocals.matchingTrains = <<<<"3","0","1">>>>
       /\ rresult.value.trainNumber = TrainPrefix \o rlocals.matchingTrains[1]

C5_Witness ==
    /\ RouteSettled
    /\ Origin = DurbanStation /\ Destination = Umhlanga
    /\ rresult.status = "fulfilled"
    /\ rresult.value.trainNumber = <<"T","r","a","i","n"," ","2","0","5">>

\* C6: when the normalized pair is no key, the trains are those of the first
\* key, in table order, whose origin and destination are each a substring of,
\* or contain, the query's; the default only when no key is.
C6_FirstPartialMatch ==
    (RouteSettled /\ rresult.status = "fulfilled" /\ \A i \in RouteIndexes : ~IsKey(i))
    => IF \E i \in RouteIndexes : PartlyMatches(i)
       THEN LET first == CHOOSE i \in RouteIndexes :
                            PartlyMatches(i) /\ \A j \in 1..(i - 1) : ~PartlyMatches(j)
            IN  rlocals.matchingTrains = routeMappingValues[first]
       ELSE rlocals.matchingTrains = <<<<"3","0","1">>>>

\* A query that is no key and partly matches two keys with different trains.
C6_Witness ==
    /\ RouteSettled
    /\ rresult.status = "fulfilled"
    /\ \A i \in RouteIndexes : ~IsKey(i)
    /\ \E i, j \in RouteIndexes :
         /\ i < j /\ PartlyMatches(i) /\ PartlyMatches(j)
         /\ routeMappingValues[i] # routeMappingValues[j]

\* The table's travel time of a lowercased name, 20 for every other name.
TravelTimeOrDefault(name) ==
    IF \E i \in 1..Len(baseTravelTimeKeys) : baseTravelTimeKeys[i] = toLowerCase(name)
    THEN baseTravelTimeValues[CHOOSE i \in 1..Len(baseTravelTimeKeys) :
                                 baseTravelTimeKeys[i] = toLowerCase(name)]
    ELSE 20

\* C9: the ETA of a prediction by route is the clock reading plus the
\* destination's travel time (20 for a name that is no key of the table) plus
\* delayMinutes, as a time of day.
C9_EtaIsClockPlusTravelPlusDelay ==
    (RouteSettled /\ rresult.status = "fulfilled")
    => rresult.value.eta =
         toLocaleTimeString((rlocals.now + TravelTimeOrDefault(Destination)
                                + rresult.value.delayMinutes) % (24 * 60))

-----------------------------------------------------------------------------
(* C10: getNearbyBusStops (under SpecBus).                                  *)

BusSettled == bpc = "settled"

Returned == bresult.value

\* maxResults as the call gives it, 5 when it is omitted.
AskedFor == IF Len(bargs) >= 3 THEN bargs[3] ELSE 5

StopIndexes == 1..Len(busStopsDatabase)

\* The distance of stop i the service reports for the call's location: the
\* Haversine distance rounded to the nearest metre.
ReportedDistance(i) ==
    LET mm == calculateDistance(bargs[1], bargs[2],
                                busStopsDatabase[i].latitude, busStopsDatabase[i].longitude)
    IN  IF mm % 1000 >= 500 THEN mm \div 1000 + 1 ELSE mm \div 1000

IsReturned(i) == \E k \in 1..Len(Returned) : Returned[k].id = busStopsDatabase[i].id

PlaceOf(i) ==
    IF IsReturned(i)
    THEN CHOOSE k \in 1..Len(Returned) : Returned[k].id = busStopsDatabase[i].id
    ELSE 0

EquallyFar(i, j) == ReportedDistance(i) = ReportedDistance(j)

\* C11: stops at the same reported distance come out in the order of the
\* table: the earlier one of the table is placed before the later one, and
\* when the cut at maxResults falls between them it is the earlier one that is
\* returned.
C11_TiesInTableOrder ==
    BusSettled
    => \A i, j \in StopIndexes :
         (i < j /\ EquallyFar(i, j))
           => /\ IsReturned(j) => IsReturned(i)
              /\ (IsReturned(i) /\ IsReturned(j)) => PlaceOf(i) < PlaceOf(j)

\* Two equally far stops with the cut between them: the earlier one of the
\* table is the last stop returned.
C11_Witness ==
    /\ BusSettled
    /\ \E i, j \in StopIndexes :
         /\ i < j /\ EquallyFar(i, j)
         /\ IsReturned(i) /\ ~IsReturned(j)
         /\ PlaceOf(i) = Len(Returned)

\* The walk time of a distance of whole metres, as a text:
\* m = round(metres / 1000 * 12) minutes.
WalkTimeOfMetres(metres) ==
    LET m == (2 * 12 * metres + 1000) \div 2000
    IN  IF m < 1 THEN <<"<"," ","1"," ","m","i","n"," ","w","a","l","k">>
        ELSE IF m = 1 THEN <<"1"," ","m","i","n"," ","w","a","l","k">>
        ELSE numberToString(m) \o <<" ","m","i","n"," ","w","a","l","k">>

\* C12: the walk time of every returned stop is the one of its returned
\* distance (the distance rounded to the metre), so that two returned stops
\* with the same distance have the same walk time.
C12_WalkTimeFromReturnedDistance ==
    BusSettled
    => /\ \A k \in 1..Len(Returned) :
            Returned[k].estimatedWalkTime = WalkTimeOfMetres(Returned[k].distance)
       /\ \A k, l \in 1..Len(Returned) :
            Returned[k].distance = Returned[l].distance
              => Returned[k].estimatedWalkTime = Returned[l].estimatedWalkTime

MapDone == mpc = "done"

MapStations == mresult.stations

StationCount == Len(MapStations)

MapLocation == margs[2]

MapDelay == margs[3]

\* The places (1-based) of the stations marked as the current one.
CurrentPlaces == { i \in 1..StationCount : MapStations[i].isCurrent }

\* The 0-based index of the current station (for a result with just one).
CurrentIndex == (CHOOSE i \in CurrentPlaces : TRUE) - 1

\* The places of the stations whose name contains the location or is
\* contained in it, letter case aside.
TextMatches ==
    { i \in 1..StationCount :
        Related(toLowerCase(MapStations[i].name), toLowerCase(MapLocation)) }

\* floor(n * tenths / 10) without a division: the f with 10 f <= n * tenths < 10 (f + 1)
FloorOfShare(n, tenths) ==
    CHOOSE f \in 0..n : 10 * f <= n * tenths /\ n * tenths < 10 * (f + 1)

\* C13: exactly one station is the current one, every station before it is
\* passed, and the current station and those after it are not.
C13_OneCurrentStation ==
    MapDone
    => \E c \in 1..StationCount :
         /\ CurrentPlaces = {c}
         /\ \A i \in 1..StationCount : MapStations[i].isPassed <=> i < c

\* A train in the middle of its route: stations behind it and ahead of it.
C13_Witness ==
    /\ MapDone
    /\ \E c \in CurrentPlaces : 1 < c /\ c < StationCount
    /\ MapStations[1].isPassed /\ ~MapStations[StationCount].isPassed

\* C14: the text decides first: when some station matches the location, the
\* current station is the first of them whatever the delay; only when none
\* matches is it the bucket of the delay (0: 80 %, < 10: 60 %, < 20: 40 %,
\* else 20 % of the station count, rounded down).
C14_TextBeforeBuckets ==
    MapDone
    => /\ CurrentPlaces # {}
       /\ IF TextMatches # {}
          THEN CurrentIndex + 1 = Min(TextMatches)
          ELSE CurrentIndex =
                 FloorOfShare(StationCount,
                              IF MapDelay = 0 THEN 8
                              ELSE IF MapDelay < 10 THEN 6
                              ELSE IF MapDelay < 20 THEN 4 ELSE 2)

\* A punctual train whose location names a station other than the one of the
\* 80 % bucket.
C14_Witness ==
    /\ MapDone
    /\ MapDelay = 0
    /\ TextMatches # {}
    /\ MapLocation # <<>>
    /\ CurrentIndex + 1 = Min(TextMatches)
    /\ CurrentIndex # FloorOfShare(StationCount, 8)

\* C15: with delayMinutes = 0 the current index is floor(N * 0.8) on a route
\* of N stations, for every train number and every location, the empty
\* location included.
C15_ZeroDelayIndex ==
    (MapDone /\ MapDelay = 0)
    => /\ CurrentPlaces # {}
       /\ CurrentIndex = FloorOfShare(StationCount, 8)

IsNumber(x) == x.kind = "number"

DirSettled == dpc = "settled"

Steps == dresult.value.steps

WalkDistance == dargs[6]

\* The whole number of 300 m stretches in the distance, four at most.
TurnsExpected ==
    IF WalkDistance >= 4 * 300 THEN 4
    ELSE CHOOSE t \in 0..3 : 300 * t <= WalkDistance /\ WalkDistance < 300 * (t + 1)

IsTurn(step) ==
    /\ step.icon \in {"left", "right"}
    /\ \E k \in 1..Len(streetNames) :
         /\ step.streetName = streetNames[k]
         /\ step.instruction = "Turn " \o step.icon \o " onto " \o streetNames[k]

\* C17: the step list is "Head east" (50m, 1 min), then exactly
\* min(floor(distance / 300), 4) turns to the left or right onto a street of
\* the list of ten, then one "Continue straight" and last "Arrive" (0m,
\* 0 min); it has 3 to 7 steps.
C17_StepListShape ==
    DirSettled
    => /\ dresult.status = "fulfilled"
       /\ Len(Steps) = TurnsExpected + 3
       /\ 3 <= Len(Steps) /\ Len(Steps) <= 7
       /\ Steps[1].instruction = "Head east on your current street"
       /\ Steps[1].distance = <<"5","0","m">>
       /\ Steps[1].duration = <<"1"," ","m","i","n">>
       /\ \A i \in 2..(TurnsExpected + 1) : IsTurn(Steps[i])
       /\ Steps[Len(Steps) - 1].instruction = "Continue straight to bus stop"
       /\ Steps[Len(Steps) - 1].icon = "straight"
       /\ Steps[Len(Steps)].instruction = "Arrive at bus stop"
       /\ Steps[Len(Steps)].icon = "arrive"
       /\ Steps[Len(Steps)].distance = <<"0","m">>
       /\ Steps[Len(Steps)].duration = <<"0"," ","m","i","n">>

\* A walk of more than five stretches of 300 m: the turns are cut at four,
\* both ways and two streets among them.
C17_Witness ==
    /\ DirSettled
    /\ WalkDistance >= 1500
    /\ Len(Steps) = 7
    /\ Steps[2].icon = "left" /\ Steps[3].icon = "right"
    /\ Steps[4].streetName = "Broadway" /\ Steps[5].streetName = "Main Street"

FinderIdle == fpc = "idle"

\* requestUserLocation has failed and the catch block has run.
LocationRequestFailed == fpc = "fallback" /\ geoPromise.status = "rejected"

MessagesShown == { toasts[i].message : i \in 1..Len(toasts) }
                   \cup (IF error = null THEN {} ELSE {error.message})

\* C18: after a failed location request the message shown to the user is the
\* one of the failure that occurred (permission denied, position unavailable
\* or timeout, each with a message of its own).
C18_FailureKindShown ==
    /\ PermissionDeniedError # PositionUnavailableError
    /\ PositionUnavailableError # TimeoutError
    /\ PermissionDeniedError # TimeoutError
    /\ LocationRequestFailed => geoPromise.reason \in MessagesShown

DefaultLocation == [latitude |-> 40750000, longitude |-> -73970000]

\* The finder at rest with the stops of the default location on the screen.
DefaultStopsListed ==
    /\ FinderIdle
    /\ ~loading
    /\ error = null
    /\ userLocation = DefaultLocation
    /\ Len(busStops) = 5
    /\ \A k \in 1..5 :
         /\ \E i \in StopIndexes : busStops[k].id = busStopsDatabase[i].id
         /\ k < 5 => busStops[k].distance <= busStops[k + 1].distance
         /\ \A i \in StopIndexes :
              (\A l \in 1..5 : busStops[l].id # busStopsDatabase[i].id)
                => busStops[k].distance * 1000
                     <= calculateDistance(40750000, -73970000, busStopsDatabase[i].latitude,
                                          busStopsDatabase[i].longitude) + 500

\* C19: a failed location request (no geolocation, permission denied,
\* position unavailable, timeout) is never fatal: the finder eventually
\* leaves the loading state with the default location (40.7500, -73.9700) as
\* the user location, the 5 nearest stops listed and no error.
C19_FailureNeverFatal == LocationRequestFailed ~> DefaultStopsListed

\* A request that failed and ended on the default location: the fall-back
\* toast and the toast of the stops found are the last two shown.
C19_Witness ==
    /\ DefaultStopsListed
    /\ hasRequested
    /\ Len(toasts) >= 2
    /\ toasts[Len(toasts) - 1] = toast("info", "Using approximate location for demo")
    /\ toasts[Len(toasts)] = toast("success", "Found 5 nearby bus stops")

\* The step in which the call that the submit awaits settles.
CallSettles == currentScreen = "processing" /\ appCall # null /\ appCall' = null

\* The input of the awaited call does not pass the service's validation: a
\* train input without a digit or with a number outside 100..999, a route
\* with a blank station.
InputInvalid ==
    IF appCall.fn = "predictTrainDelay"
    THEN \/ ~HasDigit(appCall.args[1])
         \/ EmbeddedNumber(appCall.args[1]) < 100
         \/ EmbeddedNumber(appCall.args[1]) > 999
    ELSE Blank(appCall.args[1]) \/ Blank(appCall.args[2])

\* C20: when predictTrainDelay or predictTrainDelayByRoute fails on the input
\* during a submit, the app shows the message of that error once, goes from
\* processing back to welcome, has no call of its own under way afterwards,
\* and leaves the prediction null and the train number, origin and
\* destination as entered.
C20_FailureSurfacedOnce ==
    [][(CallSettles /\ InputInvalid)
         => /\ \E promise \in serviceOutcomes(appCall) :
                 /\ promise.status = "rejected"
                 /\ toasts' = Append(toasts, toast("error", promise.reason))
            /\ currentScreen' = "welcome"
            /\ appCall' = null
            /\ appPrediction = null /\ appPrediction' = null
            /\ UNCHANGED <<appTrainNumber, appOriginStation, appDestinationStation>>]_vars

\* A submit of train number 1000 has failed: the range message is the last
\* toast and the form still holds what was entered.
C20_Witness ==
    /\ currentScreen = "welcome"
    /\ appCall = null
    /\ appPrediction = null
    /\ appTrainNumber = <<"1","0","0","0">>
    /\ appDestinationStation # <<>>
    /\ toasts # <<>>
    /\ toasts[Len(toasts)] = toast("error", RangeError)

-----------------------------------------------------------------------------
-----------------------------------------------------------------------------
\* The directions held are those of a call made for a stop: the walk ends at
\* the stop and has its distance and walking time.
DirectionsAreFor(busStop) ==
    /\ directions.totalDistance = formatDistanceText(busStop.distance)
    /\ directions.totalDuration = formatDuration(busStop.distance)
    /\ \E loc \in UserLocations :
         directions.routePoints =
             calculateWalkingRoute(loc[1], loc[2], busStop.latitude, busStop.longitude)

\* C22: Whenever the directions modal is shown (directions, selected bus
\* stop and user location all set), the directions displayed are the result
\* of the request made for the selected bus stop, for every order of Get
\* Directions clicks in the list and in the mini-map, responses and Close.
C22_ModalShowsSelectedStop ==
    modalShown => DirectionsAreFor(selectedBusStop)

-----------------------------------------------------------------------------
\* C23: In every reachable state of the app the screen is results or busStops
\* only when a prediction is stored, and welcome or processing only when none
\* is stored: no blank screen, and no prediction kept across a new search.
C23_ScreenMatchesPrediction ==
    /\ currentScreen \in {"results", "busStops"} => appPrediction # null
    /\ currentScreen \in {"welcome", "processing"} => appPrediction = null

\* A search has ended on the results screen and its prediction is stored.
C23_Witness ==
    /\ currentScreen = "results"
    /\ appPrediction # null

-----------------------------------------------------------------------------
\* The stored prediction was synthesized: its train has no scenario.
PredictionSynthesized ==
    ~hasScenario(extractTrainNumber(appPrediction.trainNumber))

OffersBusStops ==
    /\ appPrediction # null
    /\ appPrediction.delayMinutes > 0
    /\ \E k \in 1..Len(appPrediction.alternatives) : appPrediction.alternatives[k].type = "bus"

\* C24: The bus-stops screen is entered only from a results screen whose
\* prediction has delayMinutes > 0 and an alternative of type bus, so it is
\* never shown for a synthesized or an on-time prediction; it is left only
\* by Back, to the results screen of the same prediction.
C24_BusStopsOnlyWhenOffered ==
    /\ [](currentScreen = "busStops" => OffersBusStops /\ ~PredictionSynthesized)
    /\ [][ /\ (currentScreen # "busStops" /\ currentScreen' = "busStops")
                => (currentScreen = "results" /\ OffersBusStops
                      /\ appPrediction' = appPrediction)
           /\ (currentScreen = "busStops" /\ currentScreen' # "busStops")
                => (currentScreen' = "results" /\ appPrediction' = appPrediction) ]_vars

\* The bus-stops screen is shown for a delayed train with a bus alternative.
C24_Witness ==
    /\ currentScreen = "busStops"
    /\ OffersBusStops

\* Results the bus stops are not offered for: an on-time prediction and a
\* synthesized prediction of a delayed train.
C24_OnTimeResult ==
    currentScreen = "results" /\ appPrediction # null /\ appPrediction.delayMinutes = 0

C24_SynthesizedDelayedResult ==
    /\ currentScreen = "results" /\ appPrediction # null
    /\ PredictionSynthesized /\ appPrediction.delayMinutes > 0

-----------------------------------------------------------------------------
LastStepIndex == Len(navSteps) - 1

ArrivedToast == toast("success", "You've arrived at your destination!")

\* C25: Once Start Navigation is pressed, the step index starts at 0; while
\* the view navigates the index moves only one step forward at a time and
\* never beyond the last step; navigation that stops without Pause or Close
\* stops on the last step, which is the "Arrive" step; and navigation that is
\* not paused or closed does stop.
C25_NavigationWalksTheSteps ==
    /\ [](navSteps # noView => currentStepIndex \in 0..LastStepIndex)
    /\ [][ /\ (~isNavigating /\ isNavigating') => currentStepIndex' = 0
           /\ (isNavigating /\ isNavigating')
                => currentStepIndex' \in {currentStepIndex, currentStepIndex + 1}
           /\ (isNavigating /\ ~isNavigating' /\ navToast' = ArrivedToast)
                => /\ currentStepIndex' = LastStepIndex
                   /\ currentStepIndex = LastStepIndex
                   /\ navSteps[LastStepIndex + 1].icon = "arrive"
           /\ (isNavigating /\ ~isNavigating')
                => \/ navToast' = ArrivedToast
                   \/ navToast' = toast("info", "Navigation paused")
                   \/ navSteps' = noView ]_vars
    /\ (isNavigating ~> ~isNavigating)

\* Navigation has stopped by itself on the last of five or more steps.
C25_Witness ==
    /\ navSteps # noView
    /\ Len(navSteps) >= 5
    /\ ~isNavigating
    /\ navToast = ArrivedToast
    /\ currentStepIndex = LastStepIndex

-----------------------------------------------------------------------------
\* A delay alert appears in this step, the panel being on the screen.
DelayAlertAppears ==
    /\ panelProps # null
    /\ Len(toasts') = Len(toasts) + 1
    /\ toasts'[Len(toasts')].message = "Delay Alert"

\* C26: The "Delay Alert" is shown only while notifications are enabled and
\* only for a prediction with delayMinutes > 5: for every order of Enable,
\* Disable and the 2-second timer, no delay alert appears at a moment when
\* isEnabled is false.
C26_AlertOnlyWhileEnabled ==
    [][DelayAlertAppears =>
          /\ isEnabled
          /\ toasts'[Len(toasts')].delayMinutes > 5]_vars

-----------------------------------------------------------------------------
\* The predictions the two functions have returned.
ReturnedPredictions ==
    {r.value : r \in {x \in {tresult, rresult} : x.status = "fulfilled"}}

\* C27: Every prediction returned by predictTrainDelay or
\* predictTrainDelayByRoute, copied from the scenario table or synthesized,
\* has the riskLevel of the delay thresholds: high iff delayMinutes > 18,
\* medium iff 10 < delayMinutes <= 18, low iff delayMinutes <= 10.
C27_RiskAgreesWithDelay ==
    \A p \in ReturnedPredictions :
        /\ p.riskLevel = "high" <=> p.delayMinutes > 18
        /\ p.riskLevel = "medium" <=> (p.delayMinutes > 10 /\ p.delayMinutes <= 18)
        /\ p.riskLevel = "low" <=> p.delayMinutes <= 10

\* The entry of the table on the edge of a threshold was returned: train 777,
\* 18 minutes late, medium risk.
C27_Witness ==
    /\ tpc = "settled"
    /\ tresult.status = "fulfilled"
    /\ tresult.value.trainNumber = scenario777.trainNumber
    /\ tresult.value.delayMinutes = 18
    /\ tresult.value.riskLevel = "medium"

\* The route search has returned an entry of the table, too.
C27_RouteResult ==
    /\ rpc = "settled"
    /\ rresult.status = "fulfilled"
    /\ rresult.value.delayMinutes > 10

-----------------------------------------------------------------------------
\* The trains findTrainsByRoute gives for the stations of the call.
TrainsFound == findTrainsByRoute(Origin, Destination)

\* "En route from <origin> to <destination>", the stations as entered
EnRouteText ==
    <<"E","n"," ","r","o","u","t","e"," ">> \o <<"f","r","o","m"," ">> \o Origin
        \o <<" ","t","o"," ">> \o Destination

\* C28: For every origin and destination findTrainsByRoute returns a list
\* that is not empty and whose first train is a key of the scenario table; so
\* predictTrainDelayByRoute never synthesizes: a prediction it returns is the
\* table entry of that train with currentLocation replaced by "En route from
\* <origin> to <destination>" (as entered) and eta recomputed.
C28_RouteAlwaysFromTable ==
    rpc # "idle" =>
        /\ Len(TrainsFound) >= 1
        /\ \E i \in ScenarioIndexes : trainScenarioKeys[i] = TrainsFound[1]
        /\ (RouteSettled /\ rresult.status = "fulfilled") =>
              LET entry == trainScenarioValues[
                               CHOOSE i \in ScenarioIndexes : trainScenarioKeys[i] = TrainsFound[1]]
                  p     == rresult.value
              IN  /\ [p EXCEPT !.eta = entry.eta, !.currentLocation = entry.currentLocation] = entry
                  /\ p.currentLocation = EnRouteText
                  /\ p.eta = calculateArrivalTime(entry.delayMinutes, Destination, rlocals.now)

\* A search between stations that no route names has returned the entry of
\* the generic train 301.
C28_Witness ==
    /\ RouteSettled
    /\ rresult.status = "fulfilled"
    /\ Origin = Mars /\ Destination = Venus
    /\ rresult.value.trainNumber = scenario301.trainNumber
    /\ rresult.value.currentLocation = EnRouteText

-----------------------------------------------------------------------------
\* A step text "<n>m" or "<n> min" whose number is not negative.
NonNegativeText(text) == Len(text) > 0 /\ text[1] # "-"

\* C29: For every walking distance >= 0 passed to getDirectionsToBusStop,
\* distances under 50 metres included, every step of the result carries a
\* non-negative distance and a non-negative duration.
C29_StepsNonNegative ==
    (DirSettled /\ WalkDistance >= 0) =>
        \A i \in 1..Len(Steps) :
            /\ NonNegativeText(Steps[i].distance)
            /\ NonNegativeText(Steps[i].duration)

\* The same for the distances of at least 50 metres, for which the first
\* step's 50 m fit into the walk.
StepsNonNegativeFromFifty ==
    (DirSettled /\ WalkDistance >= 50) =>
        \A i \in 1..Len(Steps) :
            /\ NonNegativeText(Steps[i].distance)
            /\ NonNegativeText(Steps[i].duration)

\* Directions for a walk shorter than 50 metres have been computed.
ShortWalkSettled == DirSettled /\ WalkDistance < 50

-----------------------------------------------------------------------------
\* The call was for a train number without a fixed route and a location of
\* the form "En route from X to Y", for which generateMapData makes the
\* station list itself.
SynthesizedList ==
    /\ MapDone
    /\ ~hasRouteDefinition(extractTrainNumber(margs[1]))
    /\ matchEnRoute(MapLocation) # <<>>

\* C30: on the synthesized list <<X, "Junction Point", "Transfer Station", Y>>
\* the current station is index 0 (the origin X) and progress is 0, whatever
\* delayMinutes is: the buckets of the delay are never used for such a list.
C30_SynthesizedStartsAtOrigin ==
    SynthesizedList =>
        /\ StationCount = 4
        /\ MapStations[1].name = matchEnRoute(MapLocation)[1]
        /\ MapStations[2].name = JunctionPoint
        /\ MapStations[3].name = TransferStation
        /\ MapStations[4].name = matchEnRoute(MapLocation)[2]
        /\ CurrentPlaces = {1}
        /\ mresult.progress.kind = "number"
        /\ mresult.progress.num = 0

\* A punctual train on a synthesized list: the bucket of delay 0 would be
\* index 3, the result is index 0.
C30_Witness ==
    /\ SynthesizedList
    /\ MapDelay = 0
    /\ FloorOfShare(StationCount, 8) = 3
    /\ CurrentIndex = 0
    /\ mresult.progress.num = 0

\* The same for a train that is more than 20 minutes late.
C30_LateOnSynthesizedList ==
    /\ SynthesizedList
    /\ MapDelay > 20
    /\ CurrentIndex = 0

=============================================================================
